---- MODULE Spec2Model ----
(***************************************************************************)
(* Catalog-scheme resolution of the implant templates (Corail, Amistem,    *)
(* Ecofit, Actis, Optimys): label classification, next/previous size,      *)
(* similar-label search and the assembly validation of a femoral implant   *)
(* configuration.                                                          *)
(*                                                                         *)
(* A shape label is modelled by its integer uid.  The uid of the first     *)
(* enumerator of a product is written relative to the product's registry   *)
(* range start (ProductRangeStartsAt), which the registry supplies; every  *)
(* other enumerator follows by the implicit +1 of the C++ enum.            *)
(***************************************************************************)
EXTENDS Integers, Sequences, FiniteSets, TLC

VARIABLES prod, femIC, last, pc

vars == <<prod, femIC, last, pc>>

(***************************************************************************)
(* Bounds of the explored inputs.                                          *)
(***************************************************************************)
\* number of labels below lowerS3UID and above upperS3UID offered as inputs
Margin == 1

(***************************************************************************)
(* SboShape3Label / SboML helpers                                          *)
(***************************************************************************)
\* the default-constructed (unset) label
NullLabel == 0 - 1

isSet(l) == l # NullLabel

in_closed_range(l, a, b) == a <= l /\ l <= b

clamp(x, lo, hi) == IF x < lo THEN lo ELSE IF x > hi THEN hi ELSE x

next(l, k) == l + k

\* position (1-based) of enumerator e in the enum list
IndexOf(enum, e) == CHOOSE i \in 1..Len(enum) : enum[i] = e

(***************************************************************************)
(* SboAnatomLocation                                                       *)
(***************************************************************************)
SideNone == "None"

Sides == {SideNone, "Left", "Right"}

\* QString(): the empty/unset product name
NoName == ""

(***************************************************************************)
(*                              CORAIL                                     *)
(***************************************************************************)
Corail_First == 90

Corail_S3UID ==
  << "STEM_KHO_A_135_0", "STEM_KHO_A_135_1", "STEM_KHO_A_135_2", "STEM_KHO_A_135_3",
     "STEM_KHO_A_135_4", "STEM_KHO_A_135_5", "STEM_KHO_A_135_6", "STEM_KHO_A_135_7",
     "STEM_KHO_A_135_8", "STEM_KHO_A_135_9",
     "STEM_KS_STD135_0", "STEM_KS_STD135_1", "STEM_KS_STD135_2", "STEM_KS_STD135_3",
     "STEM_KS_STD135_4", "STEM_KS_STD135_5", "STEM_KS_STD135_6", "STEM_KS_STD135_7",
     "STEM_KS_STD135_8", "STEM_KS_STD135_9", "STEM_KS_STD135_10",
     "STEM_KA_STD135_0", "STEM_KA_STD135_1", "STEM_KA_STD135_2", "STEM_KA_STD135_3",
     "STEM_KA_STD135_4", "STEM_KA_STD135_5", "STEM_KA_STD135_6", "STEM_KA_STD135_7",
     "STEM_KA_STD135_8", "STEM_KA_STD135_9", "STEM_KA_STD135_10",
     "STEM_KHO_S_135_0", "STEM_KHO_S_135_1", "STEM_KHO_S_135_2", "STEM_KHO_S_135_3",
     "STEM_KHO_S_135_4", "STEM_KHO_S_135_5", "STEM_KHO_S_135_6", "STEM_KHO_S_135_7",
     "STEM_KHO_S_135_8", "STEM_KHO_S_135_9",
     "STEM_KLA_125_0", "STEM_KLA_125_1", "STEM_KLA_125_2", "STEM_KLA_125_3",
     "STEM_KLA_125_4", "STEM_KLA_125_5", "STEM_KLA_125_6", "STEM_KLA_125_7",
     "STEM_KLA_125_8", "STEM_KLA_125_9",
     "STEM_STD125_S_0", "STEM_STD125_S_1", "STEM_STD125_S_2", "STEM_STD125_S_3",
     "STEM_STD125_A_0", "STEM_STD125_A_1", "STEM_STD125_A_2", "STEM_STD125_A_3",
     "STEM_STD125_A_4", "STEM_STD125_A_5", "STEM_STD125_A_6", "STEM_STD125_A_7",
     "STEM_SN_S_0", "STEM_SN_S_1", "STEM_SN_S_2", "STEM_SN_S_3",
     "STEM_SN_A_0", "STEM_SN_A_1", "STEM_SN_A_2", "STEM_SN_A_3",
     "STEM_SN_A_4", "STEM_SN_A_5", "STEM_SN_A_6", "STEM_SN_A_7",
     "CUTPLANE", "HEAD_M4", "HEAD_P0", "HEAD_P4", "HEAD_P8",
     "RANGE_CCD_KS_STD135", "RANGE_CCD_KA_STD135", "RANGE_CCD_KHO_S_135",
     "RANGE_CCD_KHO_A_135", "RANGE_CCD_KLA_125", "RANGE_CCD_STD125_S",
     "RANGE_CCD_STD125_A", "RANGE_CCD_SN_S", "RANGE_CCD_SN_A" >>

\* the value of every enumerator: the first one is set, the others count up
Corail_S3UIDValue ==
  [e \in {Corail_S3UID[i] : i \in 1..Len(Corail_S3UID)} |-> Corail_First + IndexOf(Corail_S3UID, e) - 1]

Corail_s3(e) == Corail_S3UIDValue[e]

Corail_lowerS3UID == Corail_s3("STEM_KHO_A_135_0")
Corail_upperS3UID == Corail_s3("RANGE_CCD_SN_A")
Corail_defaultS3StemRUID == Corail_s3("STEM_KA_STD135_5")
Corail_defaultS3HeadUID == Corail_s3("HEAD_P0")

\* the KS predicate with its upper bound one enumerator too far
Corail_isCCD_KS_STD135_wide(l) ==
  in_closed_range(l, Corail_s3("STEM_KS_STD135_0"), Corail_s3("STEM_KA_STD135_0"))

Corail_isCCD_KS_STD135(l) == in_closed_range(l, Corail_s3("STEM_KS_STD135_0"), Corail_s3("STEM_KS_STD135_10"))

Corail_isCCD_KA_STD135(l) == in_closed_range(l, Corail_s3("STEM_KA_STD135_0"), Corail_s3("STEM_KA_STD135_10"))

Corail_isCCD_KHO_S_135(l) == in_closed_range(l, Corail_s3("STEM_KHO_S_135_0"), Corail_s3("STEM_KHO_S_135_9"))

Corail_isCCD_KHO_A_135(l) == in_closed_range(l, Corail_s3("STEM_KHO_A_135_0"), Corail_s3("STEM_KHO_A_135_9"))

Corail_isCCD_KLA_125(l) == in_closed_range(l, Corail_s3("STEM_KLA_125_0"), Corail_s3("STEM_KLA_125_9"))

Corail_isCCD_STD125_S(l) == in_closed_range(l, Corail_s3("STEM_STD125_S_0"), Corail_s3("STEM_STD125_S_3"))

Corail_isCCD_STD125_A(l) == in_closed_range(l, Corail_s3("STEM_STD125_A_0"), Corail_s3("STEM_STD125_A_7"))

Corail_isCCD_SN_S(l) == in_closed_range(l, Corail_s3("STEM_SN_S_0"), Corail_s3("STEM_SN_S_3"))

Corail_isCCD_SN_A(l) == in_closed_range(l, Corail_s3("STEM_SN_A_0"), Corail_s3("STEM_SN_A_7"))

Corail_isStem(l) == in_closed_range(l, Corail_s3("STEM_KHO_A_135_0"), Corail_s3("STEM_SN_A_7"))

\* the head test that starts at the cut plane label
Corail_isHead_fromCutPlane(l) == in_closed_range(l, Corail_s3("CUTPLANE"), Corail_s3("HEAD_P8"))

Corail_isHead(l) == in_closed_range(l, Corail_s3("HEAD_M4"), Corail_s3("HEAD_P8"))

\* stepping that only tests that the neighbour is a stem
Corail_nextPrevStem_anyStem(aL, aNext) ==
  LET nL == next(aL, IF aNext THEN 1 ELSE 0 - 1) IN
  IF Corail_isStem(nL) THEN nL ELSE aL

Corail_nextPrevStem(aL, aNext) ==
  LET nL == next(aL, IF aNext THEN 1 ELSE 0 - 1) IN
  IF Corail_isCCD_KS_STD135(aL) THEN (IF Corail_isCCD_KS_STD135(nL) THEN nL ELSE aL)
  ELSE IF Corail_isCCD_KA_STD135(aL) THEN (IF Corail_isCCD_KA_STD135(nL) THEN nL ELSE aL)
  ELSE IF Corail_isCCD_KHO_S_135(aL) THEN (IF Corail_isCCD_KHO_S_135(nL) THEN nL ELSE aL)
  ELSE IF Corail_isCCD_KHO_A_135(aL) THEN (IF Corail_isCCD_KHO_A_135(nL) THEN nL ELSE aL)
  ELSE IF Corail_isCCD_STD125_S(aL) THEN (IF Corail_isCCD_STD125_S(nL) THEN nL ELSE aL)
  ELSE IF Corail_isCCD_STD125_A(aL) THEN (IF Corail_isCCD_STD125_A(nL) THEN nL ELSE aL)
  ELSE IF Corail_isCCD_SN_S(aL) THEN (IF Corail_isCCD_SN_S(nL) THEN nL ELSE aL)
  ELSE IF Corail_isCCD_SN_A(aL) THEN (IF Corail_isCCD_SN_A(nL) THEN nL ELSE aL)
  ELSE (IF Corail_isCCD_KLA_125(nL) THEN nL ELSE aL)

Corail_getCCDRange(aL) ==
  IF Corail_isCCD_KS_STD135(aL) THEN Corail_s3("RANGE_CCD_KS_STD135")
  ELSE IF Corail_isCCD_KA_STD135(aL) THEN Corail_s3("RANGE_CCD_KA_STD135")
  ELSE IF Corail_isCCD_KHO_S_135(aL) THEN Corail_s3("RANGE_CCD_KHO_S_135")
  ELSE IF Corail_isCCD_KHO_A_135(aL) THEN Corail_s3("RANGE_CCD_KHO_A_135")
  ELSE IF Corail_isCCD_KLA_125(aL) THEN Corail_s3("RANGE_CCD_KLA_125")
  ELSE IF Corail_isCCD_STD125_S(aL) THEN Corail_s3("RANGE_CCD_STD125_S")
  ELSE IF Corail_isCCD_STD125_A(aL) THEN Corail_s3("RANGE_CCD_STD125_A")
  ELSE IF Corail_isCCD_SN_S(aL) THEN Corail_s3("RANGE_CCD_SN_S")
  ELSE IF Corail_isCCD_SN_A(aL) THEN Corail_s3("RANGE_CCD_SN_A")
  ELSE NullLabel

\* the start index chain with the KA row copied from the KS row
Corail_getCCDStartIdx_copied(aL) ==
  IF Corail_isCCD_KS_STD135(aL) \/ Corail_isCCD_KA_STD135(aL) THEN 10
  ELSE IF Corail_isCCD_KHO_S_135(aL) THEN 32
  ELSE IF Corail_isCCD_KHO_A_135(aL) THEN 0
  ELSE IF Corail_isCCD_KLA_125(aL) THEN 42
  ELSE IF Corail_isCCD_STD125_S(aL) THEN 52
  ELSE IF Corail_isCCD_STD125_A(aL) THEN 56
  ELSE IF Corail_isCCD_SN_S(aL) THEN 64
  ELSE IF Corail_isCCD_SN_A(aL) THEN 68
  ELSE 0

Corail_getCCDStartIdx(aL) ==
  IF Corail_isCCD_KHO_A_135(aL) THEN 0
  ELSE IF Corail_isCCD_KS_STD135(aL) THEN 10
  ELSE IF Corail_isCCD_KA_STD135(aL) THEN 21
  ELSE IF Corail_isCCD_KHO_S_135(aL) THEN 32
  ELSE IF Corail_isCCD_KLA_125(aL) THEN 42
  ELSE IF Corail_isCCD_STD125_S(aL) THEN 52
  ELSE IF Corail_isCCD_STD125_A(aL) THEN 56
  ELSE IF Corail_isCCD_SN_S(aL) THEN 64
  ELSE IF Corail_isCCD_SN_A(aL) THEN 68
  ELSE 0

\* the offsets with the way back from KHO and KLA to KS shifted by two sizes
Corail_getSimilarOffset_twoBack(aOffset, aSourceR, aTargetR) ==
  IF aSourceR = Corail_s3("RANGE_CCD_KS_STD135") \/ aSourceR = Corail_s3("RANGE_CCD_KA_STD135") THEN
    IF aTargetR = Corail_s3("RANGE_CCD_KHO_S_135") THEN clamp(aOffset - 1, 0, 9)
    ELSE IF aTargetR = Corail_s3("RANGE_CCD_KHO_A_135") THEN clamp(aOffset - 1, 0, 9)
    ELSE IF aTargetR = Corail_s3("RANGE_CCD_KLA_125") THEN clamp(aOffset - 1, 0, 9)
    ELSE IF aTargetR = Corail_s3("RANGE_CCD_STD125_S") THEN clamp(aOffset + 1, 0, 3)
    ELSE IF aTargetR = Corail_s3("RANGE_CCD_STD125_A") THEN clamp(aOffset + 1, 0, 7)
    ELSE IF aTargetR = Corail_s3("RANGE_CCD_SN_S") THEN clamp(aOffset + 1, 0, 3)
    ELSE IF aTargetR = Corail_s3("RANGE_CCD_SN_A") THEN clamp(aOffset + 1, 0, 7)
    ELSE aOffset
  ELSE IF aSourceR = Corail_s3("RANGE_CCD_KHO_S_135") \/ aSourceR = Corail_s3("RANGE_CCD_KHO_A_135")
          \/ aSourceR = Corail_s3("RANGE_CCD_KLA_125") THEN
    IF aTargetR = Corail_s3("RANGE_CCD_KS_STD135") THEN clamp(aOffset + 2, 0, 10)
    ELSE IF aTargetR = Corail_s3("RANGE_CCD_KA_STD135") THEN clamp(aOffset + 1, 0, 10)
    ELSE IF aTargetR = Corail_s3("RANGE_CCD_STD125_S") THEN clamp(aOffset + 2, 0, 3)
    ELSE IF aTargetR = Corail_s3("RANGE_CCD_STD125_A") THEN clamp(aOffset + 2, 0, 7)
    ELSE IF aTargetR = Corail_s3("RANGE_CCD_SN_S") THEN clamp(aOffset + 2, 0, 3)
    ELSE IF aTargetR = Corail_s3("RANGE_CCD_SN_A") THEN clamp(aOffset + 2, 0, 7)
    ELSE aOffset
  ELSE IF aSourceR = Corail_s3("RANGE_CCD_STD125_S") \/ aSourceR = Corail_s3("RANGE_CCD_SN_S") THEN
    IF aTargetR = Corail_s3("RANGE_CCD_KS_STD135") THEN clamp(aOffset - 1, 0, 10)
    ELSE IF aTargetR = Corail_s3("RANGE_CCD_KA_STD135") THEN clamp(aOffset - 1, 0, 10)
    ELSE IF aTargetR = Corail_s3("RANGE_CCD_KHO_S_135") THEN clamp(aOffset - 2, 0, 9)
    ELSE IF aTargetR = Corail_s3("RANGE_CCD_KHO_A_135") THEN clamp(aOffset - 2, 0, 9)
    ELSE IF aTargetR = Corail_s3("RANGE_CCD_KLA_125") THEN clamp(aOffset - 2, 0, 9)
    ELSE IF aTargetR = Corail_s3("RANGE_CCD_STD125_A") THEN clamp(aOffset, 0, 7)
    ELSE IF aTargetR = Corail_s3("RANGE_CCD_SN_A") THEN clamp(aOffset, 0, 7)
    ELSE aOffset
  ELSE IF aSourceR = Corail_s3("RANGE_CCD_STD125_A") \/ aSourceR = Corail_s3("RANGE_CCD_SN_A") THEN
    IF aTargetR = Corail_s3("RANGE_CCD_KS_STD135") THEN clamp(aOffset - 1, 0, 10)
    ELSE IF aTargetR = Corail_s3("RANGE_CCD_KA_STD135") THEN clamp(aOffset - 1, 0, 10)
    ELSE IF aTargetR = Corail_s3("RANGE_CCD_KHO_S_135") THEN clamp(aOffset - 2, 0, 9)
    ELSE IF aTargetR = Corail_s3("RANGE_CCD_KHO_A_135") THEN clamp(aOffset - 2, 0, 9)
    ELSE IF aTargetR = Corail_s3("RANGE_CCD_KLA_125") THEN clamp(aOffset - 2, 0, 9)
    ELSE IF aTargetR = Corail_s3("RANGE_CCD_STD125_S") THEN clamp(aOffset, 0, 3)
    ELSE IF aTargetR = Corail_s3("RANGE_CCD_SN_S") THEN clamp(aOffset, 0, 3)
    ELSE aOffset
  ELSE aOffset

Corail_getSimilarOffset(aOffset, aSourceR, aTargetR) ==
  IF aSourceR = Corail_s3("RANGE_CCD_KS_STD135") \/ aSourceR = Corail_s3("RANGE_CCD_KA_STD135") THEN
    IF aTargetR = Corail_s3("RANGE_CCD_KHO_S_135") THEN clamp(aOffset - 1, 0, 9)
    ELSE IF aTargetR = Corail_s3("RANGE_CCD_KHO_A_135") THEN clamp(aOffset - 1, 0, 9)
    ELSE IF aTargetR = Corail_s3("RANGE_CCD_KLA_125") THEN clamp(aOffset - 1, 0, 9)
    ELSE IF aTargetR = Corail_s3("RANGE_CCD_STD125_S") THEN clamp(aOffset + 1, 0, 3)
    ELSE IF aTargetR = Corail_s3("RANGE_CCD_STD125_A") THEN clamp(aOffset + 1, 0, 7)
    ELSE IF aTargetR = Corail_s3("RANGE_CCD_SN_S") THEN clamp(aOffset + 1, 0, 3)
    ELSE IF aTargetR = Corail_s3("RANGE_CCD_SN_A") THEN clamp(aOffset + 1, 0, 7)
    ELSE aOffset
  ELSE IF aSourceR = Corail_s3("RANGE_CCD_KHO_S_135") \/ aSourceR = Corail_s3("RANGE_CCD_KHO_A_135")
          \/ aSourceR = Corail_s3("RANGE_CCD_KLA_125") THEN
    IF aTargetR = Corail_s3("RANGE_CCD_KS_STD135") THEN clamp(aOffset + 1, 0, 10)
    ELSE IF aTargetR = Corail_s3("RANGE_CCD_KA_STD135") THEN clamp(aOffset + 1, 0, 10)
    ELSE IF aTargetR = Corail_s3("RANGE_CCD_STD125_S") THEN clamp(aOffset + 2, 0, 3)
    ELSE IF aTargetR = Corail_s3("RANGE_CCD_STD125_A") THEN clamp(aOffset + 2, 0, 7)
    ELSE IF aTargetR = Corail_s3("RANGE_CCD_SN_S") THEN clamp(aOffset + 2, 0, 3)
    ELSE IF aTargetR = Corail_s3("RANGE_CCD_SN_A") THEN clamp(aOffset + 2, 0, 7)
    ELSE aOffset
  ELSE IF aSourceR = Corail_s3("RANGE_CCD_STD125_S") \/ aSourceR = Corail_s3("RANGE_CCD_SN_S") THEN
    IF aTargetR = Corail_s3("RANGE_CCD_KS_STD135") THEN clamp(aOffset - 1, 0, 10)
    ELSE IF aTargetR = Corail_s3("RANGE_CCD_KA_STD135") THEN clamp(aOffset - 1, 0, 10)
    ELSE IF aTargetR = Corail_s3("RANGE_CCD_KHO_S_135") THEN clamp(aOffset - 2, 0, 9)
    ELSE IF aTargetR = Corail_s3("RANGE_CCD_KHO_A_135") THEN clamp(aOffset - 2, 0, 9)
    ELSE IF aTargetR = Corail_s3("RANGE_CCD_KLA_125") THEN clamp(aOffset - 2, 0, 9)
    ELSE IF aTargetR = Corail_s3("RANGE_CCD_STD125_A") THEN clamp(aOffset, 0, 7)
    ELSE IF aTargetR = Corail_s3("RANGE_CCD_SN_A") THEN clamp(aOffset, 0, 7)
    ELSE aOffset
  ELSE IF aSourceR = Corail_s3("RANGE_CCD_STD125_A") \/ aSourceR = Corail_s3("RANGE_CCD_SN_A") THEN
    IF aTargetR = Corail_s3("RANGE_CCD_KS_STD135") THEN clamp(aOffset - 1, 0, 10)
    ELSE IF aTargetR = Corail_s3("RANGE_CCD_KA_STD135") THEN clamp(aOffset - 1, 0, 10)
    ELSE IF aTargetR = Corail_s3("RANGE_CCD_KHO_S_135") THEN clamp(aOffset - 2, 0, 9)
    ELSE IF aTargetR = Corail_s3("RANGE_CCD_KHO_A_135") THEN clamp(aOffset - 2, 0, 9)
    ELSE IF aTargetR = Corail_s3("RANGE_CCD_KLA_125") THEN clamp(aOffset - 2, 0, 9)
    ELSE IF aTargetR = Corail_s3("RANGE_CCD_STD125_S") THEN clamp(aOffset, 0, 3)
    ELSE IF aTargetR = Corail_s3("RANGE_CCD_SN_S") THEN clamp(aOffset, 0, 3)
    ELSE aOffset
  ELSE aOffset

Corail_getOffset(aL) == aL - Corail_getCCDStartIdx(aL) - Corail_lowerS3UID

\* CCD_CORAIL::_r*: the range table rows {startIdx, endIdx, label}
Corail_ranges ==
  << [startIdx |-> 10, endIdx |-> 20, label |-> Corail_s3("RANGE_CCD_KS_STD135")],
     [startIdx |-> 21, endIdx |-> 31, label |-> Corail_s3("RANGE_CCD_KA_STD135")],
     [startIdx |-> 32, endIdx |-> 41, label |-> Corail_s3("RANGE_CCD_KHO_S_135")],
     [startIdx |-> 0,  endIdx |-> 9,  label |-> Corail_s3("RANGE_CCD_KHO_A_135")],
     [startIdx |-> 42, endIdx |-> 51, label |-> Corail_s3("RANGE_CCD_KLA_125")],
     [startIdx |-> 52, endIdx |-> 55, label |-> Corail_s3("RANGE_CCD_STD125_S")],
     [startIdx |-> 56, endIdx |-> 63, label |-> Corail_s3("RANGE_CCD_STD125_A")],
     [startIdx |-> 64, endIdx |-> 67, label |-> Corail_s3("RANGE_CCD_SN_S")],
     [startIdx |-> 68, endIdx |-> 75, label |-> Corail_s3("RANGE_CCD_SN_A")] >>

\* std::find_if over ranges(): the first row whose label is aRangeLabel
Corail_findRange(aRangeLabel) ==
  Corail_ranges[CHOOSE i \in 1..Len(Corail_ranges) :
                   /\ Corail_ranges[i].label = aRangeLabel
                   /\ \A j \in 1..(i - 1) : Corail_ranges[j].label # aRangeLabel]

\* the resolver adding the start index of the current row instead of the next row
Corail_similarLabel_currStart(aL, aNextCCDRange) ==
  LET itCurrR == Corail_findRange(Corail_getCCDRange(aL))
      itNextR == Corail_findRange(aNextCCDRange)
      offset  == Corail_getSimilarOffset(Corail_getOffset(aL), itCurrR.label, itNextR.label)
  IN next(Corail_lowerS3UID, offset + itCurrR.startIdx)

Corail_similarLabel(aL, aNextCCDRange) ==
  LET itCurrR == Corail_findRange(Corail_getCCDRange(aL))
      itNextR == Corail_findRange(aNextCCDRange)
      offset  == Corail_getSimilarOffset(Corail_getOffset(aL), itCurrR.label, itNextR.label)
  IN next(Corail_lowerS3UID, offset + itNextR.startIdx)

(***************************************************************************)
(*                              AMISTEM                                    *)
(***************************************************************************)
Amistem_First == 50

Amistem_S3UID ==
  <<
     "STEM_STD_0", "STEM_STD_1", "STEM_STD_2", "STEM_STD_3",
     "STEM_STD_4", "STEM_STD_5", "STEM_STD_6", "STEM_STD_7",
     "STEM_STD_8", "STEM_STD_9", "STEM_STD_10", "STEM_LAT_0",
     "STEM_LAT_1", "STEM_LAT_2", "STEM_LAT_3", "STEM_LAT_4",
     "STEM_LAT_5", "STEM_LAT_6", "STEM_LAT_7", "STEM_LAT_8",
     "STEM_STD_SN_0", "STEM_STD_SN_1", "STEM_STD_SN_2", "STEM_STD_SN_3",
     "STEM_STD_SN_4", "STEM_STD_SN_5", "STEM_STD_SN_6", "STEM_STD_SN_7",
     "STEM_STD_SN_8", "STEM_STD_SN_9", "STEM_STD_SN_10", "STEM_LAT_SN_0",
     "STEM_LAT_SN_1", "STEM_LAT_SN_2", "STEM_LAT_SN_3", "STEM_LAT_SN_4",
     "STEM_LAT_SN_5", "STEM_LAT_SN_6", "STEM_LAT_SN_7", "STEM_LAT_SN_8",
     "CUTPLANE", "HEAD_M4", "HEAD_P0", "HEAD_P4",
     "HEAD_P8", "HEAD_P12", "RANGE_CCD_STD", "RANGE_CCD_LAT",
     "RANGE_CCD_STD_SN", "RANGE_CCD_LAT_SN" >>

\* the value of every enumerator: the first one is set, the others count up
Amistem_S3UIDValue ==
  [e \in {Amistem_S3UID[i] : i \in 1..Len(Amistem_S3UID)} |-> Amistem_First + IndexOf(Amistem_S3UID, e) - 1]

Amistem_s3(e) == Amistem_S3UIDValue[e]

Amistem_lowerS3UID == Amistem_s3("STEM_STD_0")
Amistem_upperS3UID == Amistem_s3("RANGE_CCD_LAT_SN")
Amistem_defaultS3StemRUID == Amistem_s3("STEM_STD_5")
Amistem_defaultS3HeadUID == Amistem_s3("HEAD_P0")

Amistem_isCCD_STD(l) == in_closed_range(l, Amistem_s3("STEM_STD_0"), Amistem_s3("STEM_STD_10"))

Amistem_isCCD_LAT(l) == in_closed_range(l, Amistem_s3("STEM_LAT_0"), Amistem_s3("STEM_LAT_8"))

Amistem_isCCD_STD_SN(l) == in_closed_range(l, Amistem_s3("STEM_STD_SN_0"), Amistem_s3("STEM_STD_SN_10"))

Amistem_isCCD_LAT_SN(l) == in_closed_range(l, Amistem_s3("STEM_LAT_SN_0"), Amistem_s3("STEM_LAT_SN_8"))

Amistem_isStem(l) ==
  Amistem_isCCD_STD(l) \/ Amistem_isCCD_LAT(l) \/ Amistem_isCCD_STD_SN(l) \/ Amistem_isCCD_LAT_SN(l)

Amistem_isHead(l) == in_closed_range(l, Amistem_s3("HEAD_M4"), Amistem_s3("HEAD_P12"))

Amistem_isRange(l) == in_closed_range(l, Amistem_s3("RANGE_CCD_STD"), Amistem_s3("RANGE_CCD_LAT_SN"))

\* stepping that only tests that the neighbour is a stem
Amistem_nextPrevStem_anyStem(aL, aNext) ==
  LET nL == next(aL, IF aNext THEN 1 ELSE 0 - 1) IN
  IF Amistem_isStem(nL) THEN nL ELSE aL

Amistem_nextPrevStem(aL, aNext) ==
  LET nL == next(aL, IF aNext THEN 1 ELSE 0 - 1) IN
  IF Amistem_isCCD_STD_SN(aL) THEN (IF Amistem_isCCD_STD_SN(nL) THEN nL ELSE aL)
  ELSE IF Amistem_isCCD_LAT_SN(aL) THEN (IF Amistem_isCCD_LAT_SN(nL) THEN nL ELSE aL)
  ELSE IF Amistem_isCCD_LAT(aL) THEN (IF Amistem_isCCD_LAT(nL) THEN nL ELSE aL)
  ELSE (IF Amistem_isCCD_STD(nL) THEN nL ELSE aL)

Amistem_getCCDRange(aL) ==
  IF Amistem_isCCD_STD(aL) THEN Amistem_s3("RANGE_CCD_STD")
  ELSE IF Amistem_isCCD_LAT(aL) THEN Amistem_s3("RANGE_CCD_LAT")
  ELSE IF Amistem_isCCD_STD_SN(aL) THEN Amistem_s3("RANGE_CCD_STD_SN")
  ELSE IF Amistem_isCCD_LAT_SN(aL) THEN Amistem_s3("RANGE_CCD_LAT_SN")
  ELSE NullLabel

\* struct R { r0, r1, l, s, label0 }; R{} is the value-initialised record
Amistem_R0 == [r0 |-> 0, r1 |-> 0, l |-> 0, s |-> 0, label0 |-> NullLabel]

Amistem_getRangeStats(aL) ==
  IF Amistem_isStem(aL) /\ Amistem_isCCD_STD(aL)
    THEN [r0 |-> 0, r1 |-> 10, l |-> 0, s |-> 10, label0 |-> Amistem_s3("STEM_STD_0")]
  ELSE IF Amistem_isStem(aL) /\ Amistem_isCCD_LAT(aL)
    THEN [r0 |-> 0, r1 |-> 8, l |-> 11, s |-> 19, label0 |-> Amistem_s3("STEM_LAT_0")]
  ELSE IF Amistem_isStem(aL) /\ Amistem_isCCD_STD_SN(aL)
    THEN [r0 |-> 0, r1 |-> 10, l |-> 20, s |-> 30, label0 |-> Amistem_s3("STEM_STD_SN_0")]
  ELSE IF Amistem_isStem(aL) /\ Amistem_isCCD_LAT_SN(aL)
    THEN [r0 |-> 0, r1 |-> 8, l |-> 31, s |-> 39, label0 |-> Amistem_s3("STEM_LAT_SN_0")]
  ELSE IF aL = Amistem_s3("RANGE_CCD_STD")
    THEN [r0 |-> 0, r1 |-> 10, l |-> 0, s |-> 10, label0 |-> Amistem_s3("STEM_STD_0")]
  ELSE IF aL = Amistem_s3("RANGE_CCD_LAT")
    THEN [r0 |-> 0, r1 |-> 8, l |-> 11, s |-> 19, label0 |-> Amistem_s3("STEM_LAT_0")]
  ELSE IF aL = Amistem_s3("RANGE_CCD_STD_SN")
    THEN [r0 |-> 0, r1 |-> 10, l |-> 20, s |-> 30, label0 |-> Amistem_s3("STEM_STD_SN_0")]
  ELSE IF aL = Amistem_s3("RANGE_CCD_LAT_SN")
    THEN [r0 |-> 0, r1 |-> 8, l |-> 31, s |-> 39, label0 |-> Amistem_s3("STEM_LAT_SN_0")]
  ELSE Amistem_R0

\* the chain of "if (aL == s3(S3UID::X)) return k;" of getStemSize, in order
Amistem_StemSizeRows ==
  <<
     <<"STEM_STD_0", 0>>, <<"STEM_STD_1", 1>>, <<"STEM_STD_2", 2>>, <<"STEM_STD_3", 3>>,
     <<"STEM_STD_4", 4>>, <<"STEM_STD_5", 5>>, <<"STEM_STD_6", 6>>, <<"STEM_STD_7", 7>>,
     <<"STEM_STD_8", 8>>, <<"STEM_STD_9", 9>>, <<"STEM_STD_10", 10>>, <<"STEM_LAT_0", 0>>,
     <<"STEM_LAT_1", 1>>, <<"STEM_LAT_2", 2>>, <<"STEM_LAT_3", 3>>, <<"STEM_LAT_4", 4>>,
     <<"STEM_LAT_5", 5>>, <<"STEM_LAT_6", 6>>, <<"STEM_LAT_7", 7>>, <<"STEM_LAT_8", 8>>,
     <<"STEM_STD_SN_0", 0>>, <<"STEM_STD_SN_1", 1>>, <<"STEM_STD_SN_2", 2>>, <<"STEM_STD_SN_3", 3>>,
     <<"STEM_STD_SN_4", 4>>, <<"STEM_STD_SN_5", 5>>, <<"STEM_STD_SN_6", 6>>, <<"STEM_STD_SN_7", 7>>,
     <<"STEM_STD_SN_8", 8>>, <<"STEM_STD_SN_9", 9>>, <<"STEM_STD_SN_10", 10>>, <<"STEM_LAT_SN_0", 0>>,
     <<"STEM_LAT_SN_1", 1>>, <<"STEM_LAT_SN_2", 2>>, <<"STEM_LAT_SN_3", 3>>, <<"STEM_LAT_SN_4", 4>>,
     <<"STEM_LAT_SN_5", 5>>, <<"STEM_LAT_SN_6", 6>>, <<"STEM_LAT_SN_7", 7>>, <<"STEM_LAT_SN_8", 8>> >>

Amistem_StemSizeOf == [i \in 1..Len(Amistem_StemSizeRows) |->
                        <<Amistem_s3(Amistem_StemSizeRows[i][1]), Amistem_StemSizeRows[i][2]>>]

Amistem_getStemSize(aL) ==
  IF \E i \in 1..Len(Amistem_StemSizeOf) : Amistem_StemSizeOf[i][1] = aL
    THEN Amistem_StemSizeOf[CHOOSE i \in 1..Len(Amistem_StemSizeOf) :
                               Amistem_StemSizeOf[i][1] = aL][2]
    ELSE 0

\* the resolver without the early return for the sizes 0 and 10
Amistem_getSimilarLabel_clampEnds(aLabel, aTargetR) ==
  LET sourceR == Amistem_getCCDRange(aLabel)
      sz == Amistem_getStemSize(aLabel)
      T == Amistem_getRangeStats(aTargetR)
      ret(tsz) == next(T.label0, tsz)
  IN
  IF sourceR = Amistem_s3("RANGE_CCD_STD") \/ sourceR = Amistem_s3("RANGE_CCD_STD_SN") THEN
    LET twin == IF sourceR = Amistem_s3("RANGE_CCD_STD") THEN Amistem_s3("RANGE_CCD_STD_SN")
                ELSE Amistem_s3("RANGE_CCD_STD")
    IN
    IF aTargetR = twin THEN ret(clamp(sz, T.r0, T.r1))
    ELSE IF aTargetR = Amistem_s3("RANGE_CCD_LAT") THEN ret(clamp(sz - 1, T.r0, T.r1))
    ELSE IF aTargetR = Amistem_s3("RANGE_CCD_LAT_SN") THEN ret(clamp(sz - 1, T.r0, T.r1))
    ELSE ret(sz)
  ELSE IF sourceR = Amistem_s3("RANGE_CCD_LAT") \/ sourceR = Amistem_s3("RANGE_CCD_LAT_SN") THEN
    IF aTargetR = Amistem_s3("RANGE_CCD_STD") THEN ret(clamp(sz + 1, T.r0, T.r1))
    ELSE IF aTargetR = Amistem_s3("RANGE_CCD_STD_SN") THEN ret(clamp(sz + 1, T.r0, T.r1))
    ELSE ret(sz)
  ELSE ret(sz)

Amistem_getSimilarLabel(aLabel, aTargetR) ==
  LET sourceR == Amistem_getCCDRange(aLabel)
      sz == Amistem_getStemSize(aLabel)
      T == Amistem_getRangeStats(aTargetR)
      ret(tsz) == next(T.label0, tsz)
  IN
  IF sourceR = Amistem_s3("RANGE_CCD_STD") \/ sourceR = Amistem_s3("RANGE_CCD_STD_SN") THEN
    LET twin == IF sourceR = Amistem_s3("RANGE_CCD_STD") THEN Amistem_s3("RANGE_CCD_STD_SN")
                ELSE Amistem_s3("RANGE_CCD_STD")
    IN
    IF aTargetR = twin THEN ret(clamp(sz, T.r0, T.r1))
    ELSE IF sz = 0 \/ sz = 10 THEN aLabel
    ELSE IF aTargetR = Amistem_s3("RANGE_CCD_LAT") THEN ret(clamp(sz - 1, T.r0, T.r1))
    ELSE IF aTargetR = Amistem_s3("RANGE_CCD_LAT_SN") THEN ret(clamp(sz - 1, T.r0, T.r1))
    ELSE ret(sz)
  ELSE IF sourceR = Amistem_s3("RANGE_CCD_LAT") \/ sourceR = Amistem_s3("RANGE_CCD_LAT_SN") THEN
    IF aTargetR = Amistem_s3("RANGE_CCD_STD") THEN ret(clamp(sz + 1, T.r0, T.r1))
    ELSE IF aTargetR = Amistem_s3("RANGE_CCD_STD_SN") THEN ret(clamp(sz + 1, T.r0, T.r1))
    ELSE ret(sz)
  ELSE ret(sz)

(***************************************************************************)
(*                              ECOFIT                                     *)
(***************************************************************************)
Ecofit_First == 90

Ecofit_S3UID ==
  <<
     "STEM_STD_133_0", "STEM_STD_133_1", "STEM_STD_133_2", "STEM_STD_133_3",
     "STEM_STD_133_4", "STEM_STD_133_5", "STEM_STD_133_6", "STEM_STD_133_7",
     "STEM_STD_133_8", "STEM_STD_133_9", "STEM_STD_133_10", "STEM_STD_133_11",
     "STEM_LAT_133_0", "STEM_LAT_133_1", "STEM_LAT_133_2", "STEM_LAT_133_3",
     "STEM_LAT_133_4", "STEM_LAT_133_5", "STEM_LAT_133_6", "STEM_LAT_133_7",
     "STEM_LAT_133_8", "STEM_LAT_133_9", "STEM_LAT_133_10", "STEM_LAT_133_11",
     "STEM_STD_138_0", "STEM_STD_138_1", "STEM_STD_138_2", "STEM_STD_138_3",
     "STEM_STD_138_4", "STEM_STD_138_5", "STEM_STD_138_6", "STEM_STD_138_7",
     "STEM_STD_138_8", "STEM_STD_138_9", "STEM_LAT_138_0", "STEM_LAT_138_1",
     "STEM_LAT_138_2", "STEM_LAT_138_3", "STEM_LAT_138_4", "STEM_LAT_138_5",
     "STEM_LAT_138_6", "STEM_LAT_138_7", "STEM_LAT_138_8", "STEM_LAT_138_9",
     "STEM_CV_0", "STEM_CV_1", "STEM_CV_2", "STEM_CV_3",
     "STEM_CV_4", "STEM_CV_5", "STEM_CV_6", "STEM_CV_7",
     "STEM_CV_8", "STEM_CV_9", "CUTPLANE", "HEAD_M4",
     "HEAD_P0", "HEAD_P4", "HEAD_P8", "RANGE_CCD_STD_133",
     "RANGE_CCD_LAT_133", "RANGE_CCD_STD_138", "RANGE_CCD_LAT_138", "RANGE_CCD_CV" >>

\* the value of every enumerator: the first one is set, the others count up
Ecofit_S3UIDValue ==
  [e \in {Ecofit_S3UID[i] : i \in 1..Len(Ecofit_S3UID)} |-> Ecofit_First + IndexOf(Ecofit_S3UID, e) - 1]

Ecofit_s3(e) == Ecofit_S3UIDValue[e]

Ecofit_lowerS3UID == Ecofit_s3("STEM_STD_133_0")
Ecofit_upperS3UID == Ecofit_s3("RANGE_CCD_CV")
Ecofit_defaultS3StemUID == Ecofit_s3("STEM_STD_133_5")
Ecofit_defaultS3HeadUID == Ecofit_s3("HEAD_P0")

Ecofit_isCCD_STD_133(l) == in_closed_range(l, Ecofit_s3("STEM_STD_133_0"), Ecofit_s3("STEM_STD_133_11"))

Ecofit_isCCD_LAT_133(l) == in_closed_range(l, Ecofit_s3("STEM_LAT_133_0"), Ecofit_s3("STEM_LAT_133_11"))

Ecofit_isCCD_STD_138(l) == in_closed_range(l, Ecofit_s3("STEM_STD_138_0"), Ecofit_s3("STEM_STD_138_9"))

Ecofit_isCCD_LAT_138(l) == in_closed_range(l, Ecofit_s3("STEM_LAT_138_0"), Ecofit_s3("STEM_LAT_138_9"))

Ecofit_isCCD_CV(l) == in_closed_range(l, Ecofit_s3("STEM_CV_0"), Ecofit_s3("STEM_CV_9"))

Ecofit_isStem(l) ==
  Ecofit_isCCD_STD_133(l) \/ Ecofit_isCCD_LAT_133(l) \/ Ecofit_isCCD_STD_138(l)
    \/ Ecofit_isCCD_LAT_138(l) \/ Ecofit_isCCD_CV(l)

Ecofit_isHead(l) == in_closed_range(l, Ecofit_s3("HEAD_M4"), Ecofit_s3("HEAD_P8"))

Ecofit_isSubRange(l) == in_closed_range(l, Ecofit_s3("RANGE_CCD_STD_133"), Ecofit_s3("RANGE_CCD_CV"))

\* the 133 test that forgets the LAT 133 family
Ecofit_isSubRange133_stdOnly(l) == l = Ecofit_s3("RANGE_CCD_STD_133")

Ecofit_isSubRange133(l) == l = Ecofit_s3("RANGE_CCD_STD_133") \/ l = Ecofit_s3("RANGE_CCD_LAT_133")

\* struct R { r0, r1, label0, subRange } and its members
R_idx(r, aL) == aL - r.label0

R_inSubRange(r, aL) == R_idx(r, aL) >= r.r0 /\ R_idx(r, aL) <= r.r1

R_next(r, aL, aStep) == IF R_inSubRange(r, next(aL, aStep)) THEN next(aL, aStep) ELSE aL

\* the size counted from 1
R_size_oneBased(r, aL) == IF R_inSubRange(r, aL) THEN R_idx(r, aL) + 1 ELSE 0

R_size(r, aL) == IF R_inSubRange(r, aL) THEN R_idx(r, aL) ELSE 0

R_clampSize(r, sz) == clamp(sz, r.r0, r.r1)

\* R{}: the value-initialised record
R_null == [r0 |-> 0, r1 |-> 0, label0 |-> NullLabel, subRange |-> NullLabel]

Ecofit_getRangeStats(aL) ==
  LET myRL == IF Ecofit_isCCD_CV(aL) THEN Ecofit_s3("RANGE_CCD_CV")
              ELSE IF Ecofit_isCCD_LAT_138(aL) THEN Ecofit_s3("RANGE_CCD_LAT_138")
              ELSE IF Ecofit_isCCD_STD_138(aL) THEN Ecofit_s3("RANGE_CCD_STD_138")
              ELSE IF Ecofit_isCCD_LAT_133(aL) THEN Ecofit_s3("RANGE_CCD_LAT_133")
              ELSE IF Ecofit_isCCD_STD_133(aL) THEN Ecofit_s3("RANGE_CCD_STD_133")
              ELSE aL
  IN
  IF myRL = Ecofit_s3("RANGE_CCD_STD_133")
    THEN [r0 |-> 0, r1 |-> 11, label0 |-> Ecofit_s3("STEM_STD_133_0"), subRange |-> myRL]
  ELSE IF myRL = Ecofit_s3("RANGE_CCD_LAT_133")
    THEN [r0 |-> 0, r1 |-> 11, label0 |-> Ecofit_s3("STEM_LAT_133_0"), subRange |-> myRL]
  ELSE IF myRL = Ecofit_s3("RANGE_CCD_STD_138")
    THEN [r0 |-> 0, r1 |-> 9, label0 |-> Ecofit_s3("STEM_STD_138_0"), subRange |-> myRL]
  ELSE IF myRL = Ecofit_s3("RANGE_CCD_LAT_138")
    THEN [r0 |-> 0, r1 |-> 9, label0 |-> Ecofit_s3("STEM_LAT_138_0"), subRange |-> myRL]
  ELSE IF myRL = Ecofit_s3("RANGE_CCD_CV")
    THEN [r0 |-> 0, r1 |-> 9, label0 |-> Ecofit_s3("STEM_CV_0"), subRange |-> myRL]
  ELSE R_null

Ecofit_nextPrevStem(aL, aNext) ==
  R_next(Ecofit_getRangeStats(aL), aL, IF aNext THEN 1 ELSE 0 - 1)

\* the size remap without the final clampSize
Ecofit_getSimilarLabel_noClamp(aLabel, aTargetR) ==
  LET S == Ecofit_getRangeStats(aLabel)
      sourceR == S.subRange
      sz == R_size(S, aLabel)
      T == Ecofit_getRangeStats(aTargetR)
      tsz == IF ~Ecofit_isSubRange133(sourceR) /\ Ecofit_isSubRange133(aTargetR)
               THEN (IF sz = 8 THEN 9 ELSE IF sz = 9 THEN 11 ELSE sz)
             ELSE IF Ecofit_isSubRange133(sourceR) /\ ~Ecofit_isSubRange133(aTargetR)
               THEN (IF sz = 9 THEN 8 ELSE IF sz = 11 THEN 9 ELSE sz)
             ELSE sz
  IN next(T.label0, tsz)

\* the resolver that keeps the offset between the 133 families and the others
Ecofit_getSimilarLabel_sameOffset(aLabel, aTargetR) ==
  LET S == Ecofit_getRangeStats(aLabel)
      sourceR == S.subRange
      sz == R_size(S, aLabel)
      T == Ecofit_getRangeStats(aTargetR)
      tsz == IF ~Ecofit_isSubRange133(sourceR) /\ Ecofit_isSubRange133(aTargetR)
               THEN sz
             ELSE IF Ecofit_isSubRange133(sourceR) /\ ~Ecofit_isSubRange133(aTargetR)
               THEN sz
             ELSE sz
  IN next(T.label0, R_clampSize(T, tsz))

Ecofit_getSimilarLabel(aLabel, aTargetR) ==
  LET S == Ecofit_getRangeStats(aLabel)
      sourceR == S.subRange
      sz == R_size(S, aLabel)
      T == Ecofit_getRangeStats(aTargetR)
      tsz == IF ~Ecofit_isSubRange133(sourceR) /\ Ecofit_isSubRange133(aTargetR)
               THEN (IF sz = 8 THEN 9 ELSE IF sz = 9 THEN 11 ELSE sz)
             ELSE IF Ecofit_isSubRange133(sourceR) /\ ~Ecofit_isSubRange133(aTargetR)
               THEN (IF sz = 9 THEN 8 ELSE IF sz = 11 THEN 9 ELSE sz)
             ELSE sz
  IN next(T.label0, R_clampSize(T, tsz))

(***************************************************************************)
(*                              ACTIS                                      *)
(***************************************************************************)
Actis_First == 90

Actis_S3UID ==
  <<
     "STEM_STD_0", "STEM_STD_1", "STEM_STD_2", "STEM_STD_3",
     "STEM_STD_4", "STEM_STD_5", "STEM_STD_6", "STEM_STD_7",
     "STEM_STD_8", "STEM_STD_9", "STEM_STD_10", "STEM_STD_11",
     "STEM_STD_12", "STEM_HO_0", "STEM_HO_1", "STEM_HO_2",
     "STEM_HO_3", "STEM_HO_4", "STEM_HO_5", "STEM_HO_6",
     "STEM_HO_7", "STEM_HO_8", "STEM_HO_9", "STEM_HO_10",
     "STEM_HO_11", "STEM_HO_12", "CUTPLANE", "HEAD_M4",
     "HEAD_P0", "HEAD_P4", "HEAD_P8", "RANGE_CCD_STD",
     "RANGE_CCD_HO" >>

\* the value of every enumerator: the first one is set, the others count up
Actis_S3UIDValue ==
  [e \in {Actis_S3UID[i] : i \in 1..Len(Actis_S3UID)} |-> Actis_First + IndexOf(Actis_S3UID, e) - 1]

Actis_s3(e) == Actis_S3UIDValue[e]

Actis_lowerS3UID == Actis_s3("STEM_STD_0")
Actis_upperS3UID == Actis_s3("RANGE_CCD_HO")
Actis_defaultS3StemUID == Actis_s3("STEM_STD_6")
Actis_defaultS3HeadUID == Actis_s3("HEAD_P0")

Actis_isCCD_STD(l) == in_closed_range(l, Actis_s3("STEM_STD_0"), Actis_s3("STEM_STD_12"))

Actis_isCCD_HO(l) == in_closed_range(l, Actis_s3("STEM_HO_0"), Actis_s3("STEM_HO_12"))

Actis_isStem(l) == Actis_isCCD_STD(l) \/ Actis_isCCD_HO(l)

Actis_isHead(l) == in_closed_range(l, Actis_s3("HEAD_M4"), Actis_s3("HEAD_P8"))

Actis_isSubRange(l) == in_closed_range(l, Actis_s3("RANGE_CCD_STD"), Actis_s3("RANGE_CCD_HO"))

Actis_getRangeStats(aL) ==
  LET myRL == IF Actis_isCCD_HO(aL) THEN Actis_s3("RANGE_CCD_HO")
              ELSE IF Actis_isCCD_STD(aL) THEN Actis_s3("RANGE_CCD_STD")
              ELSE aL
  IN
  IF myRL = Actis_s3("RANGE_CCD_STD")
    THEN [r0 |-> 0, r1 |-> 12, label0 |-> Actis_s3("STEM_STD_0"), subRange |-> myRL]
  ELSE IF myRL = Actis_s3("RANGE_CCD_HO")
    THEN [r0 |-> 0, r1 |-> 12, label0 |-> Actis_s3("STEM_HO_0"), subRange |-> myRL]
  ELSE R_null

Actis_nextPrevStem(aL, aNext) ==
  R_next(Actis_getRangeStats(aL), aL, IF aNext THEN 1 ELSE 0 - 1)

\* the resolver that counts from the range marker instead of its first label
Actis_getSimilarLabel_fromMarker(aLabel, aTargetR) ==
  LET S == Actis_getRangeStats(aLabel)
      sz == R_size(S, aLabel)
      T == Actis_getRangeStats(aTargetR)
  IN next(aTargetR, sz)

Actis_getSimilarLabel(aLabel, aTargetR) ==
  LET S == Actis_getRangeStats(aLabel)
      sz == R_size(S, aLabel)
      T == Actis_getRangeStats(aTargetR)
  IN next(T.label0, sz)

(***************************************************************************)
(*                              OPTIMYS                                    *)
(***************************************************************************)
Optimys_MYSRangeStartAt == 130000 + 500

Optimys_S3UID ==
  <<
     "STEM_STD_1", "STEM_STD_2", "STEM_STD_3", "STEM_STD_4",
     "STEM_STD_5", "STEM_STD_6", "STEM_STD_7", "STEM_STD_8",
     "STEM_STD_9", "STEM_STD_10", "STEM_STD_11", "STEM_STD_12",
     "STEM_STD_13", "STEM_STD_14", "STEM_LAT_1", "STEM_LAT_2",
     "STEM_LAT_3", "STEM_LAT_4", "STEM_LAT_5", "STEM_LAT_6",
     "STEM_LAT_7", "STEM_LAT_8", "STEM_LAT_9", "STEM_LAT_10",
     "STEM_LAT_11", "STEM_LAT_12", "STEM_LAT_13", "STEM_LAT_14",
     "CUTPLANE", "HEAD_M4", "HEAD_P0", "HEAD_P4",
     "HEAD_P8", "RANGE_CCD_STD", "RANGE_CCD_LAT" >>

\* the value of every enumerator: the first one is set, the others count up
Optimys_S3UIDValue ==
  [e \in {Optimys_S3UID[i] : i \in 1..Len(Optimys_S3UID)} |-> Optimys_MYSRangeStartAt + IndexOf(Optimys_S3UID, e) - 1]

Optimys_s3(e) == Optimys_S3UIDValue[e]

Optimys_lowerS3UID == Optimys_s3("STEM_STD_1")
Optimys_upperS3UID == Optimys_s3("RANGE_CCD_LAT")
Optimys_defaultS3StemUID == Optimys_s3("STEM_STD_7")
Optimys_defaultS3HeadUID == Optimys_s3("HEAD_P0")

Optimys_isCCD_STD(l) == in_closed_range(l, Optimys_s3("STEM_STD_1"), Optimys_s3("STEM_STD_14"))

Optimys_isCCD_LAT(l) == in_closed_range(l, Optimys_s3("STEM_LAT_1"), Optimys_s3("STEM_LAT_14"))

Optimys_isStem(l) == Optimys_isCCD_STD(l) \/ Optimys_isCCD_LAT(l)

Optimys_isHead(l) == in_closed_range(l, Optimys_s3("HEAD_M4"), Optimys_s3("HEAD_P8"))

Optimys_nextPrevStem(aL, aNext) ==
  LET nL == next(aL, IF aNext THEN 1 ELSE 0 - 1) IN
  IF Optimys_isCCD_LAT(aL) THEN (IF Optimys_isCCD_LAT(nL) THEN nL ELSE aL)
  ELSE (IF Optimys_isCCD_STD(nL) THEN nL ELSE aL)

Optimys_getCCDRange(aL) ==
  IF Optimys_isCCD_STD(aL) THEN Optimys_s3("RANGE_CCD_STD")
  ELSE IF Optimys_isCCD_LAT(aL) THEN Optimys_s3("RANGE_CCD_LAT")
  ELSE NullLabel

Optimys_getSimilarOffset(aOffset, aSourceR, aTargetR) == aOffset

\* CCD_Optimys::_rSTD, _rLAT: the range table rows {startIdx, endIdx, label}
Optimys_ranges ==
  << [startIdx |-> 0,  endIdx |-> 13, label |-> Optimys_s3("RANGE_CCD_STD")],
     [startIdx |-> 14, endIdx |-> 27, label |-> Optimys_s3("RANGE_CCD_LAT")] >>

Optimys_findRange(aRangeLabel) ==
  Optimys_ranges[CHOOSE i \in 1..Len(Optimys_ranges) :
                    /\ Optimys_ranges[i].label = aRangeLabel
                    /\ \A j \in 1..(i - 1) : Optimys_ranges[j].label # aRangeLabel]

Optimys_similarLabel(aL, aNextCCDRange) ==
  LET itCurrR == Optimys_findRange(Optimys_getCCDRange(aL))
      itNextR == Optimys_findRange(aNextCCDRange)
      offset  == Optimys_getSimilarOffset(aL - itCurrR.startIdx - Optimys_lowerS3UID,
                                          itCurrR.label, itNextR.label)
  IN next(Optimys_lowerS3UID, offset + itNextR.startIdx)

(***************************************************************************)
(* ProductScheme facade: defaultFemIC, fillAndValidAssembly, nextPrev      *)
(***************************************************************************)
Corail_ProductName == "JNJ CORAIL"
Amistem_ProductName == "MDCA AMISTEM"
Ecofit_ProductName == "ICAST ECOFIT"
Actis_ProductName == "JNJ ACTIS"
Optimys_ProductName == "MYS OPTIMYS"

\* the validation that stamps the product names before testing the parts
Corail_fillAndValidAssembly_stampFirst(aFemIC) ==
  LET myFemIC == [aFemIC EXCEPT !.validAssembly = FALSE] IN
  IF myFemIC.requestedSide # SideNone THEN
    LET bs == Corail_isStem(myFemIC.stemLabel)
        bh == Corail_isHead(myFemIC.headLabel)
        bn == ~isSet(myFemIC.neckLabel)
        withCut == IF ~isSet(myFemIC.cutPlaneLabel)
                     THEN [myFemIC EXCEPT !.cutPlaneLabel = Corail_s3("CUTPLANE")]
                     ELSE myFemIC
        stamped == [withCut EXCEPT !.stemProductName = Corail_ProductName,
                                   !.distalShaftProductName = NoName,
                                   !.headProductName = Corail_ProductName,
                                   !.neckProductName = NoName]
        b == bs /\ bh /\ bn
    IN IF b THEN [stamped EXCEPT !.implantSide = SideNone, !.validAssembly = TRUE]
       ELSE stamped
  ELSE myFemIC

Corail_fillAndValidAssembly(aFemIC) ==
  LET myFemIC == [aFemIC EXCEPT !.validAssembly = FALSE] IN
  IF myFemIC.requestedSide # SideNone THEN
    LET bs == Corail_isStem(myFemIC.stemLabel)
        bh == Corail_isHead(myFemIC.headLabel)
        bn == ~isSet(myFemIC.neckLabel)
        withCut == IF ~isSet(myFemIC.cutPlaneLabel)
                     THEN [myFemIC EXCEPT !.cutPlaneLabel = Corail_s3("CUTPLANE")]
                     ELSE myFemIC
        b == bs /\ bh /\ bn
    IN IF b THEN [withCut EXCEPT !.stemProductName = Corail_ProductName,
                                 !.distalShaftProductName = NoName,
                                 !.headProductName = Corail_ProductName,
                                 !.neckProductName = NoName,
                                 !.implantSide = SideNone,
                                 !.validAssembly = TRUE]
       ELSE withCut
  ELSE myFemIC

\* the configuration defaultFemIC builds before it validates it
Corail_defaultFemIC_ctor(aRequestedSide) ==
  [requestedSide |-> aRequestedSide,
   stemLabel |-> Corail_defaultS3StemRUID,
   headLabel |-> Corail_defaultS3HeadUID,
   neckLabel |-> NullLabel,
   cutPlaneLabel |-> Corail_s3("CUTPLANE"),
   stemProductName |-> Corail_ProductName,
   distalShaftProductName |-> Corail_ProductName,
   headProductName |-> Corail_ProductName,
   neckProductName |-> NoName,
   implantSide |-> SideNone,
   validAssembly |-> FALSE]

Corail_defaultFemIC(aRequestedSide) ==
  Corail_fillAndValidAssembly(Corail_defaultFemIC_ctor(aRequestedSide))

Corail_nextPrev(aFemIC, aNext) ==
  [aFemIC EXCEPT !.stemLabel = Corail_nextPrevStem(aFemIC.stemLabel, aNext)]

Amistem_fillAndValidAssembly(aFemIC) ==
  LET myFemIC == [aFemIC EXCEPT !.validAssembly = FALSE] IN
  IF myFemIC.requestedSide # SideNone THEN
    LET bs == Amistem_isStem(myFemIC.stemLabel)
        bh == Amistem_isHead(myFemIC.headLabel)
        bn == ~isSet(myFemIC.neckLabel)
        withCut == IF ~isSet(myFemIC.cutPlaneLabel)
                     THEN [myFemIC EXCEPT !.cutPlaneLabel = Amistem_s3("CUTPLANE")]
                     ELSE myFemIC
        b == bs /\ bh /\ bn
    IN IF b THEN [withCut EXCEPT !.stemProductName = Amistem_ProductName,
                                 !.distalShaftProductName = NoName,
                                 !.headProductName = Amistem_ProductName,
                                 !.neckProductName = NoName,
                                 !.implantSide = SideNone,
                                 !.validAssembly = TRUE]
       ELSE withCut
  ELSE myFemIC

\* the configuration defaultFemIC builds before it validates it
Amistem_defaultFemIC_ctor(aRequestedSide) ==
  [requestedSide |-> aRequestedSide,
   stemLabel |-> Amistem_defaultS3StemRUID,
   headLabel |-> Amistem_defaultS3HeadUID,
   neckLabel |-> NullLabel,
   cutPlaneLabel |-> Amistem_s3("CUTPLANE"),
   stemProductName |-> Amistem_ProductName,
   distalShaftProductName |-> Amistem_ProductName,
   headProductName |-> Amistem_ProductName,
   neckProductName |-> NoName,
   implantSide |-> SideNone,
   validAssembly |-> FALSE]

Amistem_defaultFemIC(aRequestedSide) ==
  Amistem_fillAndValidAssembly(Amistem_defaultFemIC_ctor(aRequestedSide))

Amistem_nextPrev(aFemIC, aNext) ==
  [aFemIC EXCEPT !.stemLabel = Amistem_nextPrevStem(aFemIC.stemLabel, aNext)]

\* the validation that writes the cut plane label into the neck label
Ecofit_fillAndValidAssembly_cutAsNeck(aFemIC) ==
  LET myFemIC == [aFemIC EXCEPT !.validAssembly = FALSE] IN
  IF myFemIC.requestedSide # SideNone THEN
    LET bs == Ecofit_isStem(myFemIC.stemLabel)
        bh == Ecofit_isHead(myFemIC.headLabel)
        bn == ~isSet(myFemIC.neckLabel)
        withCut == IF ~isSet(myFemIC.cutPlaneLabel)
                     THEN [myFemIC EXCEPT !.neckLabel = Ecofit_s3("CUTPLANE")]
                     ELSE myFemIC
        okSide == TRUE
        b == bs /\ bh /\ bn /\ okSide
    IN IF b THEN [withCut EXCEPT !.stemProductName = Ecofit_ProductName,
                                 !.distalShaftProductName = NoName,
                                 !.headProductName = Ecofit_ProductName,
                                 !.neckProductName = NoName,
                                 !.implantSide = myFemIC.requestedSide,
                                 !.validAssembly = TRUE]
       ELSE withCut
  ELSE myFemIC

Ecofit_fillAndValidAssembly(aFemIC) ==
  LET myFemIC == [aFemIC EXCEPT !.validAssembly = FALSE] IN
  IF myFemIC.requestedSide # SideNone THEN
    LET bs == Ecofit_isStem(myFemIC.stemLabel)
        bh == Ecofit_isHead(myFemIC.headLabel)
        bn == ~isSet(myFemIC.neckLabel)
        withCut == IF ~isSet(myFemIC.cutPlaneLabel)
                     THEN [myFemIC EXCEPT !.cutPlaneLabel = Ecofit_s3("CUTPLANE")]
                     ELSE myFemIC
        okSide == TRUE
        b == bs /\ bh /\ bn /\ okSide
    IN IF b THEN [withCut EXCEPT !.stemProductName = Ecofit_ProductName,
                                 !.distalShaftProductName = NoName,
                                 !.headProductName = Ecofit_ProductName,
                                 !.neckProductName = NoName,
                                 !.implantSide = myFemIC.requestedSide,
                                 !.validAssembly = TRUE]
       ELSE withCut
  ELSE myFemIC

\* the configuration defaultFemIC builds before it validates it
Ecofit_defaultFemIC_ctor(aRequestedSide) ==
  [requestedSide |-> aRequestedSide,
   stemLabel |-> Ecofit_defaultS3StemUID,
   headLabel |-> Ecofit_defaultS3HeadUID,
   neckLabel |-> NullLabel,
   cutPlaneLabel |-> Ecofit_s3("CUTPLANE"),
   stemProductName |-> Ecofit_ProductName,
   distalShaftProductName |-> Ecofit_ProductName,
   headProductName |-> Ecofit_ProductName,
   neckProductName |-> NoName,
   implantSide |-> aRequestedSide,
   validAssembly |-> FALSE]

Ecofit_defaultFemIC(aRequestedSide) ==
  Ecofit_fillAndValidAssembly(Ecofit_defaultFemIC_ctor(aRequestedSide))

Ecofit_nextPrev(aFemIC, aNext) ==
  [aFemIC EXCEPT !.stemLabel = Ecofit_nextPrevStem(aFemIC.stemLabel, aNext)]

\* the validation without the test that no neck is set
Actis_fillAndValidAssembly_anyNeck(aFemIC) ==
  LET myFemIC == [aFemIC EXCEPT !.validAssembly = FALSE] IN
  IF myFemIC.requestedSide # SideNone THEN
    LET bs == Actis_isStem(myFemIC.stemLabel)
        bh == Actis_isHead(myFemIC.headLabel)
        withCut == IF ~isSet(myFemIC.cutPlaneLabel)
                     THEN [myFemIC EXCEPT !.cutPlaneLabel = Actis_s3("CUTPLANE")]
                     ELSE myFemIC
        b == bs /\ bh
    IN IF b THEN [withCut EXCEPT !.stemProductName = Actis_ProductName,
                                 !.distalShaftProductName = NoName,
                                 !.headProductName = Actis_ProductName,
                                 !.neckProductName = NoName,
                                 !.implantSide = myFemIC.requestedSide,
                                 !.validAssembly = TRUE]
       ELSE withCut
  ELSE myFemIC

Actis_fillAndValidAssembly(aFemIC) ==
  LET myFemIC == [aFemIC EXCEPT !.validAssembly = FALSE] IN
  IF myFemIC.requestedSide # SideNone THEN
    LET bs == Actis_isStem(myFemIC.stemLabel)
        bh == Actis_isHead(myFemIC.headLabel)
        bn == ~isSet(myFemIC.neckLabel)
        withCut == IF ~isSet(myFemIC.cutPlaneLabel)
                     THEN [myFemIC EXCEPT !.cutPlaneLabel = Actis_s3("CUTPLANE")]
                     ELSE myFemIC
        b == bs /\ bh /\ bn
    IN IF b THEN [withCut EXCEPT !.stemProductName = Actis_ProductName,
                                 !.distalShaftProductName = NoName,
                                 !.headProductName = Actis_ProductName,
                                 !.neckProductName = NoName,
                                 !.implantSide = myFemIC.requestedSide,
                                 !.validAssembly = TRUE]
       ELSE withCut
  ELSE myFemIC

\* the configuration defaultFemIC builds before it validates it
Actis_defaultFemIC_ctor(aRequestedSide) ==
  [requestedSide |-> aRequestedSide,
   stemLabel |-> Actis_defaultS3StemUID,
   headLabel |-> Actis_defaultS3HeadUID,
   neckLabel |-> NullLabel,
   cutPlaneLabel |-> Actis_s3("CUTPLANE"),
   stemProductName |-> Actis_ProductName,
   distalShaftProductName |-> Actis_ProductName,
   headProductName |-> Actis_ProductName,
   neckProductName |-> NoName,
   implantSide |-> aRequestedSide,
   validAssembly |-> FALSE]

Actis_defaultFemIC(aRequestedSide) ==
  Actis_fillAndValidAssembly(Actis_defaultFemIC_ctor(aRequestedSide))

Actis_nextPrev(aFemIC, aNext) ==
  [aFemIC EXCEPT !.stemLabel = Actis_nextPrevStem(aFemIC.stemLabel, aNext)]

Optimys_fillAndValidAssembly(aFemIC) ==
  LET myFemIC == [aFemIC EXCEPT !.validAssembly = FALSE] IN
  IF myFemIC.requestedSide # SideNone THEN
    LET bs == Optimys_isStem(myFemIC.stemLabel)
        bh == Optimys_isHead(myFemIC.headLabel)
        bn == ~isSet(myFemIC.neckLabel)
        withCut == IF ~isSet(myFemIC.cutPlaneLabel)
                     THEN [myFemIC EXCEPT !.cutPlaneLabel = Optimys_s3("CUTPLANE")]
                     ELSE myFemIC
        b == bs /\ bh /\ bn
    IN IF b THEN [withCut EXCEPT !.stemProductName = Optimys_ProductName,
                                 !.distalShaftProductName = NoName,
                                 !.headProductName = Optimys_ProductName,
                                 !.neckProductName = NoName,
                                 !.implantSide = SideNone,
                                 !.validAssembly = TRUE]
       ELSE withCut
  ELSE myFemIC

\* the configuration defaultFemIC builds before it validates it
Optimys_defaultFemIC_ctor(aRequestedSide) ==
  [requestedSide |-> aRequestedSide,
   stemLabel |-> Optimys_defaultS3StemUID,
   headLabel |-> Optimys_defaultS3HeadUID,
   neckLabel |-> NullLabel,
   cutPlaneLabel |-> Optimys_s3("CUTPLANE"),
   stemProductName |-> Optimys_ProductName,
   distalShaftProductName |-> Optimys_ProductName,
   headProductName |-> Optimys_ProductName,
   neckProductName |-> NoName,
   implantSide |-> SideNone,
   validAssembly |-> FALSE]

Optimys_defaultFemIC(aRequestedSide) ==
  Optimys_fillAndValidAssembly(Optimys_defaultFemIC_ctor(aRequestedSide))

\* stepping that validates the stepped record again
Optimys_nextPrev_revalidate(aFemIC, aNext) ==
  Optimys_fillAndValidAssembly(
    [aFemIC EXCEPT !.stemLabel = Optimys_nextPrevStem(aFemIC.stemLabel, aNext)])

Optimys_nextPrev(aFemIC, aNext) ==
  [aFemIC EXCEPT !.stemLabel = Optimys_nextPrevStem(aFemIC.stemLabel, aNext)]

(***************************************************************************)
(* Virtual dispatch on the product scheme instance                         *)
(***************************************************************************)
Products == {"Corail", "Amistem", "Ecofit", "Actis", "Optimys"}

isStem(p, l) ==
  CASE p = "Corail" -> Corail_isStem(l)
    [] p = "Amistem" -> Amistem_isStem(l)
    [] p = "Ecofit" -> Ecofit_isStem(l)
    [] p = "Actis" -> Actis_isStem(l)
    [] p = "Optimys" -> Optimys_isStem(l)

isHead(p, l) ==
  CASE p = "Corail" -> Corail_isHead(l)
    [] p = "Amistem" -> Amistem_isHead(l)
    [] p = "Ecofit" -> Ecofit_isHead(l)
    [] p = "Actis" -> Actis_isHead(l)
    [] p = "Optimys" -> Optimys_isHead(l)

nextPrevStem(p, aL, aNext) ==
  CASE p = "Corail" -> Corail_nextPrevStem(aL, aNext)
    [] p = "Amistem" -> Amistem_nextPrevStem(aL, aNext)
    [] p = "Ecofit" -> Ecofit_nextPrevStem(aL, aNext)
    [] p = "Actis" -> Actis_nextPrevStem(aL, aNext)
    [] p = "Optimys" -> Optimys_nextPrevStem(aL, aNext)

\* CCD::similarLabel of the product's stem part
similarLabel(p, aL, aNextCCDRange) ==
  CASE p = "Corail" -> Corail_similarLabel(aL, aNextCCDRange)
    [] p = "Amistem" -> Amistem_getSimilarLabel(aL, aNextCCDRange)
    [] p = "Ecofit" -> Ecofit_getSimilarLabel(aL, aNextCCDRange)
    [] p = "Actis" -> Actis_getSimilarLabel(aL, aNextCCDRange)
    [] p = "Optimys" -> Optimys_similarLabel(aL, aNextCCDRange)

fillAndValidAssembly(p, aFemIC) ==
  CASE p = "Corail" -> Corail_fillAndValidAssembly(aFemIC)
    [] p = "Amistem" -> Amistem_fillAndValidAssembly(aFemIC)
    [] p = "Ecofit" -> Ecofit_fillAndValidAssembly(aFemIC)
    [] p = "Actis" -> Actis_fillAndValidAssembly(aFemIC)
    [] p = "Optimys" -> Optimys_fillAndValidAssembly(aFemIC)

defaultFemIC(p, aRequestedSide) ==
  CASE p = "Corail" -> Corail_defaultFemIC(aRequestedSide)
    [] p = "Amistem" -> Amistem_defaultFemIC(aRequestedSide)
    [] p = "Ecofit" -> Ecofit_defaultFemIC(aRequestedSide)
    [] p = "Actis" -> Actis_defaultFemIC(aRequestedSide)
    [] p = "Optimys" -> Optimys_defaultFemIC(aRequestedSide)

defaultFemIC_ctor(p, aRequestedSide) ==
  CASE p = "Corail" -> Corail_defaultFemIC_ctor(aRequestedSide)
    [] p = "Amistem" -> Amistem_defaultFemIC_ctor(aRequestedSide)
    [] p = "Ecofit" -> Ecofit_defaultFemIC_ctor(aRequestedSide)
    [] p = "Actis" -> Actis_defaultFemIC_ctor(aRequestedSide)
    [] p = "Optimys" -> Optimys_defaultFemIC_ctor(aRequestedSide)

nextPrev(p, aFemIC, aNext) ==
  CASE p = "Corail" -> Corail_nextPrev(aFemIC, aNext)
    [] p = "Amistem" -> Amistem_nextPrev(aFemIC, aNext)
    [] p = "Ecofit" -> Ecofit_nextPrev(aFemIC, aNext)
    [] p = "Actis" -> Actis_nextPrev(aFemIC, aNext)
    [] p = "Optimys" -> Optimys_nextPrev(aFemIC, aNext)

productName(p) ==
  CASE p = "Corail" -> Corail_ProductName
    [] p = "Amistem" -> Amistem_ProductName
    [] p = "Ecofit" -> Ecofit_ProductName
    [] p = "Actis" -> Actis_ProductName
    [] p = "Optimys" -> Optimys_ProductName

lowerS3UID(p) ==
  CASE p = "Corail" -> Corail_lowerS3UID
    [] p = "Amistem" -> Amistem_lowerS3UID
    [] p = "Ecofit" -> Ecofit_lowerS3UID
    [] p = "Actis" -> Actis_lowerS3UID
    [] p = "Optimys" -> Optimys_lowerS3UID

upperS3UID(p) ==
  CASE p = "Corail" -> Corail_upperS3UID
    [] p = "Amistem" -> Amistem_upperS3UID
    [] p = "Ecofit" -> Ecofit_upperS3UID
    [] p = "Actis" -> Actis_upperS3UID
    [] p = "Optimys" -> Optimys_upperS3UID

CUTPLANE(p) ==
  CASE p = "Corail" -> Corail_s3("CUTPLANE")
    [] p = "Amistem" -> Amistem_s3("CUTPLANE")
    [] p = "Ecofit" -> Ecofit_s3("CUTPLANE")
    [] p = "Actis" -> Actis_s3("CUTPLANE")
    [] p = "Optimys" -> Optimys_s3("CUTPLANE")

defaultS3HeadUID(p) ==
  CASE p = "Corail" -> Corail_defaultS3HeadUID
    [] p = "Amistem" -> Amistem_defaultS3HeadUID
    [] p = "Ecofit" -> Ecofit_defaultS3HeadUID
    [] p = "Actis" -> Actis_defaultS3HeadUID
    [] p = "Optimys" -> Optimys_defaultS3HeadUID

defaultS3StemUID(p) ==
  CASE p = "Corail" -> Corail_defaultS3StemRUID
    [] p = "Amistem" -> Amistem_defaultS3StemRUID
    [] p = "Ecofit" -> Ecofit_defaultS3StemUID
    [] p = "Actis" -> Actis_defaultS3StemUID
    [] p = "Optimys" -> Optimys_defaultS3StemUID

\* the isCCD_* predicates of a product, by the range marker of the sub-range
isCCD(p, r, l) ==
  CASE p = "Corail" ->
         (CASE r = Corail_s3("RANGE_CCD_KS_STD135") -> Corail_isCCD_KS_STD135(l)
            [] r = Corail_s3("RANGE_CCD_KA_STD135") -> Corail_isCCD_KA_STD135(l)
            [] r = Corail_s3("RANGE_CCD_KHO_S_135") -> Corail_isCCD_KHO_S_135(l)
            [] r = Corail_s3("RANGE_CCD_KHO_A_135") -> Corail_isCCD_KHO_A_135(l)
            [] r = Corail_s3("RANGE_CCD_KLA_125") -> Corail_isCCD_KLA_125(l)
            [] r = Corail_s3("RANGE_CCD_STD125_S") -> Corail_isCCD_STD125_S(l)
            [] r = Corail_s3("RANGE_CCD_STD125_A") -> Corail_isCCD_STD125_A(l)
            [] r = Corail_s3("RANGE_CCD_SN_S") -> Corail_isCCD_SN_S(l)
            [] r = Corail_s3("RANGE_CCD_SN_A") -> Corail_isCCD_SN_A(l))
    [] p = "Amistem" ->
         (CASE r = Amistem_s3("RANGE_CCD_STD") -> Amistem_isCCD_STD(l)
            [] r = Amistem_s3("RANGE_CCD_LAT") -> Amistem_isCCD_LAT(l)
            [] r = Amistem_s3("RANGE_CCD_STD_SN") -> Amistem_isCCD_STD_SN(l)
            [] r = Amistem_s3("RANGE_CCD_LAT_SN") -> Amistem_isCCD_LAT_SN(l))
    [] p = "Ecofit" ->
         (CASE r = Ecofit_s3("RANGE_CCD_STD_133") -> Ecofit_isCCD_STD_133(l)
            [] r = Ecofit_s3("RANGE_CCD_LAT_133") -> Ecofit_isCCD_LAT_133(l)
            [] r = Ecofit_s3("RANGE_CCD_STD_138") -> Ecofit_isCCD_STD_138(l)
            [] r = Ecofit_s3("RANGE_CCD_LAT_138") -> Ecofit_isCCD_LAT_138(l)
            [] r = Ecofit_s3("RANGE_CCD_CV") -> Ecofit_isCCD_CV(l))
    [] p = "Actis" ->
         (CASE r = Actis_s3("RANGE_CCD_STD") -> Actis_isCCD_STD(l)
            [] r = Actis_s3("RANGE_CCD_HO") -> Actis_isCCD_HO(l))
    [] p = "Optimys" ->
         (CASE r = Optimys_s3("RANGE_CCD_STD") -> Optimys_isCCD_STD(l)
            [] r = Optimys_s3("RANGE_CCD_LAT") -> Optimys_isCCD_LAT(l))

\* the RANGE_CCD_* markers of a product
RangeMarkers(p) ==
  CASE p = "Corail" -> Corail_s3("RANGE_CCD_KS_STD135")..Corail_s3("RANGE_CCD_SN_A")
    [] p = "Amistem" -> Amistem_s3("RANGE_CCD_STD")..Amistem_s3("RANGE_CCD_LAT_SN")
    [] p = "Ecofit" -> Ecofit_s3("RANGE_CCD_STD_133")..Ecofit_s3("RANGE_CCD_CV")
    [] p = "Actis" -> Actis_s3("RANGE_CCD_STD")..Actis_s3("RANGE_CCD_HO")
    [] p = "Optimys" -> Optimys_s3("RANGE_CCD_STD")..Optimys_s3("RANGE_CCD_LAT")

\* the range marker of the sub-range a stem label belongs to
getCCDRange(p, aL) ==
  CASE p = "Corail" -> Corail_getCCDRange(aL)
    [] p = "Amistem" -> Amistem_getCCDRange(aL)
    [] p = "Ecofit" -> Ecofit_getRangeStats(aL).subRange
    [] p = "Actis" -> Actis_getRangeStats(aL).subRange
    [] p = "Optimys" -> Optimys_getCCDRange(aL)

\* the first label of the sub-range of marker r, from the product's range table
label0(p, r) ==
  CASE p = "Corail" -> next(Corail_lowerS3UID, Corail_findRange(r).startIdx)
    [] p = "Amistem" -> Amistem_getRangeStats(r).label0
    [] p = "Ecofit" -> Ecofit_getRangeStats(r).label0
    [] p = "Actis" -> Actis_getRangeStats(r).label0
    [] p = "Optimys" -> next(Optimys_lowerS3UID, Optimys_findRange(r).startIdx)

\* the last offset of the sub-range of marker r, from the product's range table
maxOffset(p, r) ==
  CASE p = "Corail" -> Corail_findRange(r).endIdx - Corail_findRange(r).startIdx
    [] p = "Amistem" -> Amistem_getRangeStats(r).r1 - Amistem_getRangeStats(r).r0
    [] p = "Ecofit" -> Ecofit_getRangeStats(r).r1 - Ecofit_getRangeStats(r).r0
    [] p = "Actis" -> Actis_getRangeStats(r).r1 - Actis_getRangeStats(r).r0
    [] p = "Optimys" -> Optimys_findRange(r).endIdx - Optimys_findRange(r).startIdx

(***************************************************************************)
(* The caller's configuration record (SboFemImplantConfig)                 *)
(***************************************************************************)
\* SboFemImplantConfig(side, stem, head): every other field default-constructed
SboFemImplantConfig(aRequestedSide, aStemLabel, aHeadLabel) ==
  [requestedSide |-> aRequestedSide,
   stemLabel |-> aStemLabel,
   headLabel |-> aHeadLabel,
   neckLabel |-> NullLabel,
   cutPlaneLabel |-> NullLabel,
   stemProductName |-> NoName,
   distalShaftProductName |-> NoName,
   headProductName |-> NoName,
   neckProductName |-> NoName,
   implantSide |-> SideNone,
   validAssembly |-> FALSE]

\* a product name no product of the model carries
ForeignName == "OTHER"

\* a record formerly filled by another plugin: names stamped, flagged valid
Stamped(c, p) ==
  [c EXCEPT !.cutPlaneLabel = CUTPLANE(p),
            !.stemProductName = ForeignName,
            !.distalShaftProductName = ForeignName,
            !.headProductName = ForeignName,
            !.neckProductName = ForeignName,
            !.validAssembly = TRUE]

\* every label from Margin below lowerS3UID to Margin above upperS3UID, and the unset label
AllLabels(p) == ((lowerS3UID(p) - Margin)..(upperS3UID(p) + Margin)) \cup {NullLabel}

\* head labels around the bounds of isHead
HeadInputs(p) ==
  {l \in AllLabels(p) : isHead(p, l) /\ (~isHead(p, l - 1) \/ ~isHead(p, l + 1))}
    \cup {l \in AllLabels(p) : ~isHead(p, l) /\ (isHead(p, l - 1) \/ isHead(p, l + 1))}

\* stem labels of the assembly inputs: the default stem and labels that are no stem
StemInputs(p) ==
  {defaultS3StemUID(p), NullLabel, CUTPLANE(p), lowerS3UID(p) - 1, upperS3UID(p)}

\* inputs that sweep the label space on a freshly constructed record
LabelSweep(p) ==
  {SboFemImplantConfig("Right", l, defaultS3HeadUID(p)) : l \in AllLabels(p)}

\* inputs that sweep side, head, neck and the stamped fields
AssemblySweep(p) ==
  {[c EXCEPT !.neckLabel = n] :
     c \in {SboFemImplantConfig(sd, st, hd) : sd \in Sides, st \in StemInputs(p), hd \in HeadInputs(p)}
           \cup {Stamped(SboFemImplantConfig(sd, st, hd), p) :
                   sd \in Sides, st \in StemInputs(p), hd \in HeadInputs(p)},
     n \in {NullLabel, CUTPLANE(p)}}

NoCall == [op |-> "none", arg |-> SboFemImplantConfig(SideNone, NullLabel, NullLabel),
           aNext |-> FALSE, aRange |-> NullLabel]

\* a scheme instance and a record whose stem label sweeps the label space
Init ==
  /\ prod \in Products
  /\ femIC \in LabelSweep(prod)
  /\ last = NoCall
  /\ pc = "ready"

\* a scheme instance and a record that sweeps the fields the validation reads
InitAssembly ==
  /\ prod \in Products
  /\ femIC \in AssemblySweep(prod)
  /\ last = NoCall
  /\ pc = "ready"

(***************************************************************************)
(* Operations.  HPROJ_DCHECK aborts a debug build and is compiled out of a *)
(* release build: a failed check is either the end of the run or ignored.  *)
(***************************************************************************)
FillAndValidAssembly ==
  /\ pc = "ready"
  /\ femIC' = fillAndValidAssembly(prod, femIC)
  /\ last' = [op |-> "fillAndValidAssembly", arg |-> femIC, aNext |-> FALSE, aRange |-> NullLabel]
  /\ UNCHANGED <<prod, pc>>

NextPrev(aNext) ==
  /\ pc = "ready"
  /\ last' = [op |-> "nextPrev", arg |-> femIC, aNext |-> aNext, aRange |-> NullLabel]
  /\ \/ /\ femIC' = nextPrev(prod, femIC, aNext)
        /\ UNCHANGED <<prod, pc>>
     \/ /\ ~isStem(prod, femIC.stemLabel)
        /\ pc' = "aborted"
        /\ UNCHANGED <<prod, femIC>>

\* the host switches the stem family: the stem label becomes CCD::similarLabel
\* of the current stem (a catalog item of the stem part) and the chosen range
SimilarLabel(aNextCCDRange) ==
  /\ pc = "ready"
  /\ isStem(prod, femIC.stemLabel)
  /\ femIC' = [femIC EXCEPT !.stemLabel = similarLabel(prod, femIC.stemLabel, aNextCCDRange)]
  /\ last' = [op |-> "similarLabel", arg |-> femIC, aNext |-> FALSE, aRange |-> aNextCCDRange]
  /\ UNCHANGED <<prod, pc>>

DefaultFemIC(aRequestedSide) ==
  /\ pc = "ready"
  /\ last' = [op |-> "defaultFemIC", arg |-> defaultFemIC_ctor(prod, aRequestedSide),
              aNext |-> FALSE, aRange |-> NullLabel]
  /\ \/ /\ femIC' = defaultFemIC(prod, aRequestedSide)
        /\ UNCHANGED <<prod, pc>>
     \/ /\ ~defaultFemIC(prod, aRequestedSide).validAssembly
        /\ pc' = "aborted"
        /\ UNCHANGED <<prod, femIC>>

Next ==
  \/ FillAndValidAssembly
  \/ \E aNext \in BOOLEAN : NextPrev(aNext)
  \/ \E r \in RangeMarkers(prod) : SimilarLabel(r)
  \/ \E sd \in Sides : DefaultFemIC(sd)

Spec == Init /\ [][Next]_vars

\* the validation operations alone, applied to the assembly inputs
NextAssembly ==
  \/ FillAndValidAssembly
  \/ \E sd \in Sides : DefaultFemIC(sd)

SpecAssembly == InitAssembly /\ [][NextAssembly]_vars

(***************************************************************************)
(* Geometry (SboML).  Coordinates and lengths are integers that count      *)
(* 1/10000 mm: every literal of the landmark tables and of the composers   *)
(* has at most four decimals, and sums and differences are taken exactly.  *)
(* Angles are in degrees.  What the code computes with unit3 and with a    *)
(* rotation is kept as a term: a point is R(o) + unit3(axis) * l, a matrix *)
(* is the list of its factors in the order the code multiplies them.       *)
(***************************************************************************)
\* the point or vector R(o) + unit3(axis) * l: rot lists the rotations applied to
\* o, axis is the vector unit3 normalises (<< >>: no such summand)
SboPoint3(o) == [rot |-> << >>, o |-> o, axis |-> << >>, l |-> 0]

vadd(a, b) == <<a[1] + b[1], a[2] + b[2], a[3] + b[3]>>

vsub(a, b) == <<a[1] - b[1], a[2] - b[2], a[3] - b[3]>>

\* aPoint + unit3(aVector) * l
along(aPoint, aVector, l) == [rot |-> << >>, o |-> aPoint, axis |-> aVector, l |-> l]

\* unit3 divides by the norm: the zero vector has no unit vector
isNaN(v) == v.axis = <<0, 0, 0>>

idMat3 == << >>

\* the translation by the zero vector is the identity matrix
transMat3(v) == IF v = SboPoint3(<<0, 0, 0>>) THEN idMat3 ELSE <<[k |-> "trans", v |-> v]>>

rotMatX3(deg) == <<[k |-> "rotX", deg |-> deg]>>

rotMatY3(deg) == <<[k |-> "rotY", deg |-> deg]>>

rotMatZ3(deg) == <<[k |-> "rotZ", deg |-> deg]>>

isTrans(f) == f.k = "trans"

isPlainTrans(f) == isTrans(f) /\ f.v.rot = << >> /\ f.v.axis = << >>

\* a * b: the factors of a, then those of b; two translations that meet add up
matMul(a, b) ==
  IF Len(a) > 0 /\ Len(b) > 0 /\ isPlainTrans(a[Len(a)]) /\ isPlainTrans(b[1])
    THEN SubSeq(a, 1, Len(a) - 1)
           \o transMat3(SboPoint3(vadd(a[Len(a)].v.o, b[1].v.o)))
           \o SubSeq(b, 2, Len(b))
    ELSE a \o b

\* m(p) for the origin p = (0,0,0): a rotation fixes the origin, so the image is
\* the translation on the left of the rotations, or the rotated translation on
\* their right
imageOfOrigin(m) ==
  IF m = idMat3 \/ \A i \in 1..Len(m) : ~isTrans(m[i]) THEN SboPoint3(<<0, 0, 0>>)
  ELSE IF isTrans(m[1]) /\ \A i \in 2..Len(m) : ~isTrans(m[i]) THEN m[1].v
  ELSE [rot |-> SubSeq(m, 1, Len(m) - 1), o |-> m[Len(m)].v.o, axis |-> << >>, l |-> 0]

\* the rotations among the factors of m
rotationsOf(m) == SelectSeq(m, LAMBDA f : ~isTrans(f))

\* the plane through aPoint with the normal aNormal; rot lists the rotations that
\* turn the normal, d is the distance the plane is moved along its normal
SboPlane3(aPoint, aNormal) == [o |-> aPoint, rot |-> << >>, n |-> aNormal, d |-> 0]

\* SboPlane3::transform(m) of a plane through the origin
transform(aPlane, m) == [aPlane EXCEPT !.o = imageOfOrigin(m), !.rot = rotationsOf(m)]

\* SboML::offset(aPlane, d)
SboML_offset(aPlane, d) == [aPlane EXCEPT !.d = d]

\* SboML::makeBbox3(m(pmin), m(pmax)) for m = transMat3(neckO)
makeBbox3(pmin, pmax, neckO) == [pmin |-> pmin, pmax |-> pmax, at |-> neckO]

(***************************************************************************)
(*                                FIT                                      *)
(***************************************************************************)
FIT_LimaRangeStartAt == 60000 + 750

FIT_S3UID ==
  << "STEM_1_R", "STEM_2_R", "STEM_3_R", "STEM_4_R", "STEM_5_R", "STEM_6_R", "STEM_7_R",
     "STEM_1_L", "STEM_2_L", "STEM_3_L", "STEM_4_L", "STEM_5_L", "STEM_6_L", "STEM_7_L",
     "CUTPLANE", "HEAD_M4", "HEAD_P0", "HEAD_P4", "HEAD_P8" >>

FIT_s3(e) == FIT_LimaRangeStartAt + IndexOf(FIT_S3UID, e) - 1

\* the items SboFIT::parts lists in the two stem parts
FIT_stemRange ==
  {FIT_s3(e) : e \in {"STEM_1_R", "STEM_2_R", "STEM_3_R", "STEM_4_R", "STEM_5_R", "STEM_6_R",
                      "STEM_7_R", "STEM_1_L", "STEM_2_L", "STEM_3_L", "STEM_4_L", "STEM_5_L",
                      "STEM_6_L", "STEM_7_L"}}

\* the items SboFIT::parts lists in the head part
FIT_headRange == {FIT_s3(e) : e \in {"HEAD_M4", "HEAD_P0", "HEAD_P4", "HEAD_P8"}}

FIT_getItemSize(aLabel) ==
  IF aLabel = FIT_s3("STEM_1_R") \/ aLabel = FIT_s3("STEM_1_L") THEN 1
  ELSE IF aLabel = FIT_s3("STEM_2_R") \/ aLabel = FIT_s3("STEM_2_L") THEN 2
  ELSE IF aLabel = FIT_s3("STEM_3_R") \/ aLabel = FIT_s3("STEM_3_L") THEN 3
  ELSE IF aLabel = FIT_s3("STEM_4_R") \/ aLabel = FIT_s3("STEM_4_L") THEN 4
  ELSE IF aLabel = FIT_s3("STEM_5_R") \/ aLabel = FIT_s3("STEM_5_L") THEN 5
  ELSE IF aLabel = FIT_s3("STEM_6_R") \/ aLabel = FIT_s3("STEM_6_L") THEN 6
  ELSE 7

FIT_isRight(aLabel) == in_closed_range(aLabel, FIT_s3("STEM_1_R"), FIT_s3("STEM_7_R"))

(***************************************************************************)
(* Landmark tables.  A lookup yields the condition its HPROJ_DCHECK2       *)
(* asserts (pre), whether a row of the table set the point (authored) and  *)
(* the point returned when execution goes on (pt).                         *)
(***************************************************************************)

Corail_hasCollar(l) ==
  Corail_isCCD_KHO_A_135(l) \/ Corail_isCCD_KA_STD135(l) \/ Corail_isCCD_KLA_125(l)
    \/ Corail_isCCD_STD125_A(l) \/ Corail_isCCD_SN_A(l)

\* Optimys getHeadTop: a + k * b of the row of the label, 0 without a row
Optimys_getHeadTop(aL) ==
  LET T == << <<"STEM_STD_1", 270000, 0, 10500>>, <<"STEM_STD_2", 270000, 1, 10500>>,
     <<"STEM_STD_3", 270000, 2, 10500>>, <<"STEM_STD_4", 270000, 3, 10500>>,
     <<"STEM_STD_5", 270000, 4, 10500>>, <<"STEM_STD_6", 270000, 5, 10500>>,
     <<"STEM_STD_7", 270000, 6, 11500>>, <<"STEM_STD_8", 270000, 7, 11500>>,
     <<"STEM_STD_9", 270000, 8, 11500>>, <<"STEM_STD_10", 270000, 9, 12500>>,
     <<"STEM_STD_11", 270000, 10, 12500>>, <<"STEM_STD_12", 270000, 11, 12500>>,
     <<"STEM_STD_13", 270000, 12, 12500>>, <<"STEM_STD_14", 270000, 13, 12500>>,
     <<"STEM_LAT_1", 310000, 0, 10500>>, <<"STEM_LAT_2", 310000, 1, 10500>>,
     <<"STEM_LAT_3", 310000, 2, 10500>>, <<"STEM_LAT_4", 310000, 3, 10500>>,
     <<"STEM_LAT_5", 310000, 4, 10500>>, <<"STEM_LAT_6", 310000, 5, 10500>>,
     <<"STEM_LAT_7", 310000, 6, 11500>>, <<"STEM_LAT_8", 310000, 7, 11500>>,
     <<"STEM_LAT_9", 310000, 8, 11500>>, <<"STEM_LAT_10", 310000, 9, 12500>>,
     <<"STEM_LAT_11", 310000, 10, 12500>>, <<"STEM_LAT_12", 310000, 11, 12500>>,
     <<"STEM_LAT_13", 310000, 12, 12500>>, <<"STEM_LAT_14", 310000, 13, 12500>> >>
      hit == {i \in 1..Len(T) : Optimys_s3(T[i][1]) = aL}
  IN IF hit # {} THEN LET r == T[CHOOSE i \in hit : TRUE] IN r[2] + r[3] * r[4] ELSE 0

\* the lookup that takes the rows of KS for KS alone
getRES_01_skipKA(p, aLabel) ==
  CASE p = "Corail" ->
         LET offset == Corail_getOffset(aLabel)
             at(T) == IF offset \in 0..(Len(T) - 1)
                        THEN [pre |-> Corail_isStem(aLabel), authored |-> TRUE, pt |-> T[offset + 1]]
                        ELSE [pre |-> Corail_isStem(aLabel), authored |-> FALSE, pt |-> <<0, 0, 0>>]
         IN IF Corail_isCCD_KS_STD135(aLabel) THEN
              at(<< <<-110700, 0, 110700>>, <<-115700, 0, 115700>>, <<-123200, 0, 123200>>,
                    <<-130700, 0, 130700>>, <<-138000, 0, 138000>>, <<-144400, 0, 144400>>,
                    <<-150700, 0, 150700>>, <<-158200, 0, 158200>>, <<-165700, 0, 165700>>,
                    <<-175700, 0, 175700>>, <<-185700, 0, 185700>> >>)
            ELSE IF Corail_isCCD_KHO_S_135(aLabel) \/ Corail_isCCD_KHO_A_135(aLabel) THEN
              at(<< <<-151000, 0, 151000>>, <<-158500, 0, 158500>>, <<-166000, 0, 166000>>,
                    <<-173500, 0, 173500>>, <<-179800, 0, 179800>>, <<-186000, 0, 186000>>,
                    <<-193500, 0, 193500>>, <<-201000, 0, 201000>>, <<-211000, 0, 211000>>,
                    <<-221000, 0, 221000>> >>)
            ELSE IF Corail_isCCD_KLA_125(aLabel) THEN
              at(<< <<-126200, 0, 88400>>, <<-133700, 0, 93600>>, <<-141200, 0, 98900>>,
                    <<-148600, 0, 104000>>, <<-155000, 0, 108500>>, <<-161200, 0, 112900>>,
                    <<-168700, 0, 118100>>, <<-176200, 0, 123400>>, <<-185800, 0, 130100>>,
                    <<-195900, 0, 137200>> >>)
            ELSE IF Corail_isCCD_STD125_S(aLabel) THEN
              at(<< <<-87600, 0, 61300>>, <<-92600, 0, 64800>>, <<-97600, 0, 68300>>,
                    <<-105100, 0, 73600>> >>)
            ELSE IF Corail_isCCD_STD125_A(aLabel) THEN
              at(<< <<-87600, 0, 61300>>, <<-92600, 0, 64800>>, <<-97600, 0, 68300>>,
                    <<-105100, 0, 73600>>, <<-112600, 0, 78800>>, <<-120100, 0, 84100>>,
                    <<-126300, 0, 88400>>, <<-132600, 0, 92800>> >>)
            ELSE IF Corail_isCCD_SN_S(aLabel) THEN
              at(<< <<-102200, 0, 102200>>, <<-107100, 0, 107100>>, <<-112100, 0, 112100>>,
                    <<-119600, 0, 119600>> >>)
            ELSE IF Corail_isCCD_SN_A(aLabel) THEN
              at(<< <<-102100, 0, 102100>>, <<-107100, 0, 107100>>, <<-112100, 0, 112100>>,
                    <<-119600, 0, 119600>>, <<-127100, 0, 127100>>, <<-134600, 0, 134600>>,
                    <<-140900, 0, 140900>>, <<-147100, 0, 147100>> >>)
            ELSE at(<< >>)
    [] p = "Amistem" ->
         LET sourceR == Amistem_getCCDRange(aLabel)
             sz == Amistem_getStemSize(aLabel)
             at(T) == IF sz \in 0..(Len(T) - 1)
                        THEN [pre |-> Amistem_isStem(aLabel), authored |-> TRUE, pt |-> <<0, T[sz + 1][1], T[sz + 1][2]>>]
                        ELSE [pre |-> Amistem_isStem(aLabel), authored |-> FALSE, pt |-> <<0, 0, 0>>]
         IN IF sourceR = Amistem_s3("RANGE_CCD_STD") THEN
              at(<< <<145200, 145200>>, <<147800, 147800>>, <<154900, 154900>>, <<161900, 161900>>,
                    <<169000, 169000>>, <<175400, 175400>>, <<181700, 181700>>, <<188000, 188000>>,
                    <<193700, 193700>>, <<200700, 200700>>, <<207800, 207800>> >>)
            ELSE IF sourceR = Amistem_s3("RANGE_CCD_LAT") THEN
              at(<< <<139900, 105400>>, <<147000, 110800>>, <<154000, 116100>>, <<163500, 123200>>,
                    <<167600, 126300>>, <<173800, 131000>>, <<178800, 135500>>, <<185900, 140100>>,
                    <<192000, 144700>> >>)
            ELSE IF sourceR = Amistem_s3("RANGE_CCD_STD_SN") THEN
              at(<< <<145100, 145100>>, <<147700, 147700>>, <<154800, 154800>>, <<161900, 161900>>,
                    <<169000, 169000>>, <<175300, 175300>>, <<181700, 181700>>, <<188000, 188000>>,
                    <<193600, 193600>>, <<200700, 200700>>, <<207800, 207800>> >>)
            ELSE IF sourceR = Amistem_s3("RANGE_CCD_LAT_SN") THEN
              at(<< <<139900, 105400>>, <<147000, 110800>>, <<154000, 116100>>, <<163500, 123200>>,
                    <<167600, 126300>>, <<173800, 131000>>, <<179800, 135500>>, <<185900, 140100>>,
                    <<192000, 144700>> >>)
            ELSE at(<< >>)
    [] p = "Ecofit" ->
         [pre |-> Ecofit_isStem(aLabel), authored |-> FALSE, pt |-> <<0, 0, 0>>]
    [] p = "Actis" ->
         LET hit(T) == {i \in 1..Len(T) : Actis_s3(T[i][1]) = aLabel}
             at(T) == IF hit(T) # {}
                        THEN [pre |-> Actis_isStem(aLabel), authored |-> TRUE, pt |-> T[CHOOSE i \in hit(T) : TRUE][2]]
                        ELSE [pre |-> Actis_isStem(aLabel), authored |-> FALSE, pt |-> <<0, 0, 0>>]
         IN IF Actis_getRangeStats(aLabel).subRange = Actis_s3("RANGE_CCD_STD") THEN
              at(<< <<"STEM_STD_0", <<119400, 0, 100200>>>>,
                    <<"STEM_STD_1", <<124700, 0, 104600>>>>,
                    <<"STEM_STD_2", <<132700, 0, 111400>>>>,
                    <<"STEM_STD_3", <<130500, 0, 109500>>>>,
                    <<"STEM_STD_4", <<135600, 0, 113800>>>>,
                    <<"STEM_STD_5", <<135800, 0, 114000>>>>,
                    <<"STEM_STD_6", <<141200, 0, 118500>>>>,
                    <<"STEM_STD_7", <<141400, 0, 118700>>>>,
                    <<"STEM_STD_8", <<146800, 0, 123200>>>>,
                    <<"STEM_STD_9", <<147000, 0, 123400>>>>,
                    <<"STEM_STD_10", <<152900, 0, 128300>>>>,
                    <<"STEM_STD_11", <<156400, 0, 131200>>>>,
                    <<"STEM_STD_12", <<160400, 0, 134600>>>> >>)
            ELSE
              at(<< <<"STEM_HO_0", <<151000, 0, 126700>>>>, <<"STEM_HO_1", <<154700, 0, 129800>>>>,
                    <<"STEM_HO_2", <<162700, 0, 136500>>>>, <<"STEM_HO_3", <<160500, 0, 134600>>>>,
                    <<"STEM_HO_4", <<175700, 0, 147400>>>>, <<"STEM_HO_5", <<175800, 0, 147600>>>>,
                    <<"STEM_HO_6", <<181200, 0, 152100>>>>, <<"STEM_HO_7", <<181400, 0, 152200>>>>,
                    <<"STEM_HO_8", <<186800, 0, 156800>>>>, <<"STEM_HO_9", <<187000, 0, 156900>>>>,
                    <<"STEM_HO_10", <<192900, 0, 161900>>>>,
                    <<"STEM_HO_11", <<196400, 0, 164800>>>>,
                    <<"STEM_HO_12", <<200400, 0, 168200>>>> >>)

getRES_01(p, aLabel) ==
  CASE p = "Corail" ->
         LET offset == Corail_getOffset(aLabel)
             at(T) == IF offset \in 0..(Len(T) - 1)
                        THEN [pre |-> Corail_isStem(aLabel), authored |-> TRUE, pt |-> T[offset + 1]]
                        ELSE [pre |-> Corail_isStem(aLabel), authored |-> FALSE, pt |-> <<0, 0, 0>>]
         IN IF Corail_isCCD_KS_STD135(aLabel) \/ Corail_isCCD_KA_STD135(aLabel) THEN
              at(<< <<-110700, 0, 110700>>, <<-115700, 0, 115700>>, <<-123200, 0, 123200>>,
                    <<-130700, 0, 130700>>, <<-138000, 0, 138000>>, <<-144400, 0, 144400>>,
                    <<-150700, 0, 150700>>, <<-158200, 0, 158200>>, <<-165700, 0, 165700>>,
                    <<-175700, 0, 175700>>, <<-185700, 0, 185700>> >>)
            ELSE IF Corail_isCCD_KHO_S_135(aLabel) \/ Corail_isCCD_KHO_A_135(aLabel) THEN
              at(<< <<-151000, 0, 151000>>, <<-158500, 0, 158500>>, <<-166000, 0, 166000>>,
                    <<-173500, 0, 173500>>, <<-179800, 0, 179800>>, <<-186000, 0, 186000>>,
                    <<-193500, 0, 193500>>, <<-201000, 0, 201000>>, <<-211000, 0, 211000>>,
                    <<-221000, 0, 221000>> >>)
            ELSE IF Corail_isCCD_KLA_125(aLabel) THEN
              at(<< <<-126200, 0, 88400>>, <<-133700, 0, 93600>>, <<-141200, 0, 98900>>,
                    <<-148600, 0, 104000>>, <<-155000, 0, 108500>>, <<-161200, 0, 112900>>,
                    <<-168700, 0, 118100>>, <<-176200, 0, 123400>>, <<-185800, 0, 130100>>,
                    <<-195900, 0, 137200>> >>)
            ELSE IF Corail_isCCD_STD125_S(aLabel) THEN
              at(<< <<-87600, 0, 61300>>, <<-92600, 0, 64800>>, <<-97600, 0, 68300>>,
                    <<-105100, 0, 73600>> >>)
            ELSE IF Corail_isCCD_STD125_A(aLabel) THEN
              at(<< <<-87600, 0, 61300>>, <<-92600, 0, 64800>>, <<-97600, 0, 68300>>,
                    <<-105100, 0, 73600>>, <<-112600, 0, 78800>>, <<-120100, 0, 84100>>,
                    <<-126300, 0, 88400>>, <<-132600, 0, 92800>> >>)
            ELSE IF Corail_isCCD_SN_S(aLabel) THEN
              at(<< <<-102200, 0, 102200>>, <<-107100, 0, 107100>>, <<-112100, 0, 112100>>,
                    <<-119600, 0, 119600>> >>)
            ELSE IF Corail_isCCD_SN_A(aLabel) THEN
              at(<< <<-102100, 0, 102100>>, <<-107100, 0, 107100>>, <<-112100, 0, 112100>>,
                    <<-119600, 0, 119600>>, <<-127100, 0, 127100>>, <<-134600, 0, 134600>>,
                    <<-140900, 0, 140900>>, <<-147100, 0, 147100>> >>)
            ELSE at(<< >>)
    [] p = "Amistem" ->
         LET sourceR == Amistem_getCCDRange(aLabel)
             sz == Amistem_getStemSize(aLabel)
             at(T) == IF sz \in 0..(Len(T) - 1)
                        THEN [pre |-> Amistem_isStem(aLabel), authored |-> TRUE, pt |-> <<0, T[sz + 1][1], T[sz + 1][2]>>]
                        ELSE [pre |-> Amistem_isStem(aLabel), authored |-> FALSE, pt |-> <<0, 0, 0>>]
         IN IF sourceR = Amistem_s3("RANGE_CCD_STD") THEN
              at(<< <<145200, 145200>>, <<147800, 147800>>, <<154900, 154900>>, <<161900, 161900>>,
                    <<169000, 169000>>, <<175400, 175400>>, <<181700, 181700>>, <<188000, 188000>>,
                    <<193700, 193700>>, <<200700, 200700>>, <<207800, 207800>> >>)
            ELSE IF sourceR = Amistem_s3("RANGE_CCD_LAT") THEN
              at(<< <<139900, 105400>>, <<147000, 110800>>, <<154000, 116100>>, <<163500, 123200>>,
                    <<167600, 126300>>, <<173800, 131000>>, <<178800, 135500>>, <<185900, 140100>>,
                    <<192000, 144700>> >>)
            ELSE IF sourceR = Amistem_s3("RANGE_CCD_STD_SN") THEN
              at(<< <<145100, 145100>>, <<147700, 147700>>, <<154800, 154800>>, <<161900, 161900>>,
                    <<169000, 169000>>, <<175300, 175300>>, <<181700, 181700>>, <<188000, 188000>>,
                    <<193600, 193600>>, <<200700, 200700>>, <<207800, 207800>> >>)
            ELSE IF sourceR = Amistem_s3("RANGE_CCD_LAT_SN") THEN
              at(<< <<139900, 105400>>, <<147000, 110800>>, <<154000, 116100>>, <<163500, 123200>>,
                    <<167600, 126300>>, <<173800, 131000>>, <<179800, 135500>>, <<185900, 140100>>,
                    <<192000, 144700>> >>)
            ELSE at(<< >>)
    [] p = "Ecofit" ->
         [pre |-> Ecofit_isStem(aLabel), authored |-> FALSE, pt |-> <<0, 0, 0>>]
    [] p = "Actis" ->
         LET hit(T) == {i \in 1..Len(T) : Actis_s3(T[i][1]) = aLabel}
             at(T) == IF hit(T) # {}
                        THEN [pre |-> Actis_isStem(aLabel), authored |-> TRUE, pt |-> T[CHOOSE i \in hit(T) : TRUE][2]]
                        ELSE [pre |-> Actis_isStem(aLabel), authored |-> FALSE, pt |-> <<0, 0, 0>>]
         IN IF Actis_getRangeStats(aLabel).subRange = Actis_s3("RANGE_CCD_STD") THEN
              at(<< <<"STEM_STD_0", <<119400, 0, 100200>>>>,
                    <<"STEM_STD_1", <<124700, 0, 104600>>>>,
                    <<"STEM_STD_2", <<132700, 0, 111400>>>>,
                    <<"STEM_STD_3", <<130500, 0, 109500>>>>,
                    <<"STEM_STD_4", <<135600, 0, 113800>>>>,
                    <<"STEM_STD_5", <<135800, 0, 114000>>>>,
                    <<"STEM_STD_6", <<141200, 0, 118500>>>>,
                    <<"STEM_STD_7", <<141400, 0, 118700>>>>,
                    <<"STEM_STD_8", <<146800, 0, 123200>>>>,
                    <<"STEM_STD_9", <<147000, 0, 123400>>>>,
                    <<"STEM_STD_10", <<152900, 0, 128300>>>>,
                    <<"STEM_STD_11", <<156400, 0, 131200>>>>,
                    <<"STEM_STD_12", <<160400, 0, 134600>>>> >>)
            ELSE
              at(<< <<"STEM_HO_0", <<151000, 0, 126700>>>>, <<"STEM_HO_1", <<154700, 0, 129800>>>>,
                    <<"STEM_HO_2", <<162700, 0, 136500>>>>, <<"STEM_HO_3", <<160500, 0, 134600>>>>,
                    <<"STEM_HO_4", <<175700, 0, 147400>>>>, <<"STEM_HO_5", <<175800, 0, 147600>>>>,
                    <<"STEM_HO_6", <<181200, 0, 152100>>>>, <<"STEM_HO_7", <<181400, 0, 152200>>>>,
                    <<"STEM_HO_8", <<186800, 0, 156800>>>>, <<"STEM_HO_9", <<187000, 0, 156900>>>>,
                    <<"STEM_HO_10", <<192900, 0, 161900>>>>,
                    <<"STEM_HO_11", <<196400, 0, 164800>>>>,
                    <<"STEM_HO_12", <<200400, 0, 168200>>>> >>)

getRES_02(p, aLabel) ==
  CASE p = "Corail" ->
         LET offset == Corail_getOffset(aLabel)
             at(T) == IF offset \in 0..(Len(T) - 1)
                        THEN [pre |-> Corail_isStem(aLabel), authored |-> TRUE, pt |-> T[offset + 1]]
                        ELSE [pre |-> Corail_isStem(aLabel), authored |-> FALSE, pt |-> <<0, 0, 0>>]
         IN IF Corail_isCCD_KS_STD135(aLabel) \/ Corail_isCCD_KA_STD135(aLabel) THEN
              at(<< <<-195000, 0, 26400>>, <<-200000, 0, 31400>>, <<-207500, 0, 38900>>,
                    <<-215000, 0, 46400>>, <<-222500, 0, 53600>>, <<-228700, 0, 60100>>,
                    <<-235000, 0, 66400>>, <<-242500, 0, 73900>>, <<-250000, 0, 81400>>,
                    <<-260000, 0, 91400>>, <<-270000, 0, 101400>> >>)
            ELSE IF Corail_isCCD_KHO_S_135(aLabel) \/ Corail_isCCD_KHO_A_135(aLabel) THEN
              at(<< <<-200000, 0, 102100>>, <<-207500, 0, 109600>>, <<-215000, 0, 117100>>,
                    <<-222500, 0, 124600>>, <<-228700, 0, 130800>>, <<-235000, 0, 137100>>,
                    <<-242500, 0, 144600>>, <<-250000, 0, 152100>>, <<-260000, 0, 162100>>,
                    <<-270000, 0, 172100>> >>)
            ELSE IF Corail_isCCD_KLA_125(aLabel) THEN
              at(<< <<-199900, 0, 14600>>, <<-207400, 0, 19900>>, <<-215000, 0, 25100>>,
                    <<-222600, 0, 30000>>, <<-228800, 0, 34700>>, <<-234900, 0, 39200>>,
                    <<-242100, 0, 44700>>, <<-249600, 0, 50100>>, <<-258500, 0, 57400>>,
                    <<-267800, 0, 65300>> >>)
            ELSE IF Corail_isCCD_STD125_S(aLabel) THEN
              at(<< <<-190000, 0, -41100>>, <<-195000, 0, -37600>>, <<-200000, 0, -34100>>,
                    <<-207500, 0, -28900>> >>)
            ELSE IF Corail_isCCD_STD125_A(aLabel) THEN
              at(<< <<-190000, 0, -41100>>, <<-195000, 0, -37600>>, <<-200000, 0, -34100>>,
                    <<-207500, 0, -28900>>, <<-215000, 0, -23600>>, <<-222500, 0, -18400>>,
                    <<-228700, 0, -14000>>, <<-235000, 0, -9600>> >>)
            ELSE IF Corail_isCCD_SN_S(aLabel) THEN
              at(<< <<-190000, 0, 14300>>, <<-195000, 0, 19300>>, <<-200000, 0, 24300>>,
                    <<-207500, 0, 31800>> >>)
            ELSE IF Corail_isCCD_SN_A(aLabel) THEN
              at(<< <<-190000, 0, 14300>>, <<-195000, 0, 19300>>, <<-200000, 0, 24300>>,
                    <<-207500, 0, 31800>>, <<-215000, 0, 39300>>, <<-222500, 0, 46800>>,
                    <<-228700, 0, 53000>>, <<-235000, 0, 59300>> >>)
            ELSE at(<< >>)
    [] p = "Amistem" ->
         [pre |-> Amistem_isStem(aLabel), authored |-> FALSE, pt |-> <<0, 0, 0>>]
    [] p = "Ecofit" ->
         IF Ecofit_isCCD_STD_133(aLabel) THEN
           [pre |-> Ecofit_isStem(aLabel), authored |-> TRUE, pt |-> <<106900, -92100, 0>>]
         ELSE IF Ecofit_isCCD_STD_138(aLabel) THEN
           [pre |-> Ecofit_isStem(aLabel), authored |-> TRUE, pt |-> <<105000, -94500, 0>>]
         ELSE IF Ecofit_isCCD_CV(aLabel) THEN
           [pre |-> Ecofit_isStem(aLabel), authored |-> TRUE, pt |-> <<102700, -99300, 0>>]
         ELSE IF Ecofit_isCCD_LAT_133(aLabel) THEN
           [pre |-> Ecofit_isStem(aLabel), authored |-> TRUE, pt |-> <<65500, -59000, 0>>]
         ELSE IF Ecofit_isCCD_LAT_138(aLabel) THEN
           [pre |-> Ecofit_isStem(aLabel), authored |-> TRUE, pt |-> <<65400, -58900, 0>>]
         ELSE [pre |-> Ecofit_isStem(aLabel), authored |-> FALSE, pt |-> <<0, 0, 0>>]
    [] p = "Actis" ->
         LET hit(T) == {i \in 1..Len(T) : Actis_s3(T[i][1]) = aLabel}
             at(T) == IF hit(T) # {}
                        THEN [pre |-> Actis_isStem(aLabel), authored |-> TRUE, pt |-> T[CHOOSE i \in hit(T) : TRUE][2]]
                        ELSE [pre |-> Actis_isStem(aLabel), authored |-> FALSE, pt |-> <<0, 0, 0>>]
         IN IF Actis_getRangeStats(aLabel).subRange = Actis_s3("RANGE_CCD_STD") THEN
              at(<< <<"STEM_STD_0", <<200100, 0, 31700>>>>, <<"STEM_STD_1", <<210100, 0, 33000>>>>,
                    <<"STEM_STD_2", <<218100, 0, 39800>>>>, <<"STEM_STD_3", <<225100, 0, 30100>>>>,
                    <<"STEM_STD_4", <<233000, 0, 32100>>>>, <<"STEM_STD_5", <<241000, 0, 25700>>>>,
                    <<"STEM_STD_6", <<248100, 0, 28900>>>>, <<"STEM_STD_7", <<256100, 0, 22500>>>>,
                    <<"STEM_STD_8", <<263100, 0, 25700>>>>, <<"STEM_STD_9", <<271100, 0, 19300>>>>,
                    <<"STEM_STD_10", <<279100, 0, 22400>>>>,
                    <<"STEM_STD_11", <<286100, 0, 22400>>>>,
                    <<"STEM_STD_12", <<294100, 0, 22400>>>> >>)
            ELSE
              at(<< <<"STEM_HO_0", <<202100, 0, 83900>>>>, <<"STEM_HO_1", <<210100, 0, 83300>>>>,
                    <<"STEM_HO_2", <<218100, 0, 90100>>>>, <<"STEM_HO_3", <<225100, 0, 80400>>>>,
                    <<"STEM_HO_4", <<233100, 0, 99200>>>>, <<"STEM_HO_5", <<241100, 0, 92800>>>>,
                    <<"STEM_HO_6", <<248200, 0, 95900>>>>, <<"STEM_HO_7", <<256100, 0, 89600>>>>,
                    <<"STEM_HO_8", <<263100, 0, 92800>>>>, <<"STEM_HO_9", <<271100, 0, 86400>>>>,
                    <<"STEM_HO_10", <<279100, 0, 89600>>>>, <<"STEM_HO_11", <<286100, 0, 89600>>>>,
                    <<"STEM_HO_12", <<294100, 0, 89600>>>> >>)

\* the lookup of TPR_01 without the check of Actis
getTPR_01_uncheckedActis(p, aLabel) ==
  CASE p = "Corail" ->
         LET offset == Corail_getOffset(aLabel)
             at(T) == IF offset \in 0..(Len(T) - 1)
                        THEN [pre |-> Corail_isStem(aLabel), authored |-> TRUE, pt |-> T[offset + 1]]
                        ELSE [pre |-> Corail_isStem(aLabel), authored |-> FALSE, pt |-> <<0, 0, 0>>]
         IN IF Corail_isCCD_KS_STD135(aLabel) \/ Corail_isCCD_KA_STD135(aLabel) THEN
              at(<< <<-382900, 0, 382900>>, <<-387900, 0, 387900>>, <<-395400, 0, 395400>>,
                    <<-402900, 0, 402900>>, <<-410300, 0, 410300>>, <<-416700, 0, 416700>>,
                    <<-422900, 0, 422900>>, <<-430400, 0, 430400>>, <<-437900, 0, 437900>>,
                    <<-447800, 0, 447800>>, <<-457900, 0, 457900>> >>)
            ELSE IF Corail_isCCD_KHO_S_135(aLabel) \/ Corail_isCCD_KHO_A_135(aLabel) THEN
              at(<< <<-456500, 0, 456500>>, <<-464000, 0, 464000>>, <<-471500, 0, 471500>>,
                    <<-479000, 0, 479000>>, <<-485300, 0, 485300>>, <<-491500, 0, 491500>>,
                    <<-499000, 0, 499000>>, <<-506500, 0, 506500>>, <<-518300, 0, 518300>>,
                    <<-528600, 0, 528600>> >>)
            ELSE IF Corail_isCCD_KLA_125(aLabel) THEN
              at(<< <<-455900, 0, 319200>>, <<-463500, 0, 324500>>, <<-470900, 0, 329800>>,
                    <<-478300, 0, 334900>>, <<-484600, 0, 339300>>, <<-490800, 0, 343700>>,
                    <<-498300, 0, 348900>>, <<-505800, 0, 354100>>, <<-517800, 0, 362600>>,
                    <<-527900, 0, 369700>> >>)
            ELSE IF Corail_isCCD_STD125_S(aLabel) THEN
              at(<< <<-378700, 0, 265200>>, <<-383700, 0, 268700>>, <<-388700, 0, 272200>>,
                    <<-396200, 0, 277400>> >>)
            ELSE IF Corail_isCCD_STD125_A(aLabel) THEN
              at(<< <<-378700, 0, 265200>>, <<-383700, 0, 268700>>, <<-388700, 0, 272200>>,
                    <<-396200, 0, 277400>>, <<-403700, 0, 282700>>, <<-411200, 0, 287900>>,
                    <<-417400, 0, 292300>>, <<-423700, 0, 296700>> >>)
            ELSE IF Corail_isCCD_SN_S(aLabel) THEN
              at(<< <<-324900, 0, 324900>>, <<-329900, 0, 329900>>, <<-334900, 0, 334900>>,
                    <<-342400, 0, 342400>> >>)
            ELSE IF Corail_isCCD_SN_A(aLabel) THEN
              at(<< <<-324900, 0, 324900>>, <<-329900, 0, 329900>>, <<-334900, 0, 334900>>,
                    <<-342400, 0, 342400>>, <<-349900, 0, 349900>>, <<-357400, 0, 357400>>,
                    <<-363600, 0, 363600>>, <<-369900, 0, 369900>> >>)
            ELSE at(<< >>)
    [] p = "Amistem" ->
         LET sourceR == Amistem_getCCDRange(aLabel)
             sz == Amistem_getStemSize(aLabel)
             at(T) == IF sz \in 0..(Len(T) - 1)
                        THEN [pre |-> Amistem_isStem(aLabel), authored |-> TRUE, pt |-> <<0, T[sz + 1][1], T[sz + 1][2]>>]
                        ELSE [pre |-> Amistem_isStem(aLabel), authored |-> FALSE, pt |-> <<0, 0, 0>>]
         IN IF sourceR = Amistem_s3("RANGE_CCD_STD") THEN
              at(<< <<415000, 415000>>, <<419500, 419500>>, <<431900, 431900>>, <<444400, 444400>>,
                    <<457000, 457000>>, <<468400, 468400>>, <<480000, 480000>>, <<491800, 491800>>,
                    <<502500, 502500>>, <<514800, 514800>>, <<528700, 528700>> >>)
            ELSE IF sourceR = Amistem_s3("RANGE_CCD_LAT") THEN
              at(<< <<437300, 329600>>, <<451300, 340100>>, <<465400, 350700>>, <<479400, 361300>>,
                    <<493000, 371500>>, <<506100, 381400>>, <<519100, 391200>>, <<532600, 401300>>,
                    <<544100, 410000>> >>)
            ELSE IF sourceR = Amistem_s3("RANGE_CCD_STD_SN") THEN
              at(<< <<379600, 379600>>, <<384200, 384200>>, <<396500, 396500>>, <<409100, 409100>>,
                    <<421600, 421600>>, <<433000, 433000>>, <<444600, 444600>>, <<456400, 456400>>,
                    <<467200, 467200>>, <<479400, 479400>>, <<493300, 493300>> >>)
            ELSE IF sourceR = Amistem_s3("RANGE_CCD_LAT_SN") THEN
              at(<< <<437300, 329600>>, <<451300, 340100>>, <<456400, 350700>>, <<479400, 361300>>,
                    <<493000, 371500>>, <<506100, 381400>>, <<519100, 391200>>, <<532600, 401300>>,
                    <<544100, 410000>> >>)
            ELSE at(<< >>)
    [] p = "Ecofit" ->
         IF Ecofit_isCCD_STD_133(aLabel) THEN
           [pre |-> Ecofit_isStem(aLabel), authored |-> TRUE, pt |-> <<250900, 233900, 0>>]
         ELSE IF Ecofit_isCCD_STD_138(aLabel) THEN
           [pre |-> Ecofit_isStem(aLabel), authored |-> TRUE, pt |-> <<230200, 255600, 0>>]
         ELSE IF Ecofit_isCCD_CV(aLabel) THEN
           [pre |-> Ecofit_isStem(aLabel), authored |-> TRUE, pt |-> <<271200, 176100, 0>>]
         ELSE IF Ecofit_isCCD_LAT_133(aLabel) THEN
           [pre |-> Ecofit_isStem(aLabel), authored |-> TRUE, pt |-> <<292500, 272800, 0>>]
         ELSE IF Ecofit_isCCD_LAT_138(aLabel) THEN
           [pre |-> Ecofit_isStem(aLabel), authored |-> TRUE, pt |-> <<267700, 297400, 0>>]
         ELSE [pre |-> Ecofit_isStem(aLabel), authored |-> FALSE, pt |-> <<0, 0, 0>>]
    [] p = "Actis" ->
         LET hit(T) == {i \in 1..Len(T) : Actis_s3(T[i][1]) = aLabel}
             at(T) == IF hit(T) # {}
                        THEN [pre |-> TRUE, authored |-> TRUE, pt |-> T[CHOOSE i \in hit(T) : TRUE][2]]
                        ELSE [pre |-> TRUE, authored |-> FALSE, pt |-> <<0, 0, 0>>]
         IN IF Actis_getRangeStats(aLabel).subRange = Actis_s3("RANGE_CCD_STD") THEN
              at(<< <<"STEM_STD_0", <<362900, 0, 304500>>>>,
                    <<"STEM_STD_1", <<364400, 0, 305800>>>>,
                    <<"STEM_STD_2", <<384400, 0, 322600>>>>,
                    <<"STEM_STD_3", <<382400, 0, 320900>>>>,
                    <<"STEM_STD_4", <<398500, 0, 334400>>>>,
                    <<"STEM_STD_5", <<396600, 0, 332800>>>>,
                    <<"STEM_STD_6", <<416600, 0, 349600>>>>,
                    <<"STEM_STD_7", <<416600, 0, 349600>>>>,
                    <<"STEM_STD_8", <<436600, 0, 366400>>>>,
                    <<"STEM_STD_9", <<436600, 0, 366400>>>>,
                    <<"STEM_STD_10", <<456600, 0, 383200>>>>,
                    <<"STEM_STD_11", <<456600, 0, 383200>>>>,
                    <<"STEM_STD_12", <<456600, 0, 383200>>>> >>)
            ELSE
              at(<< <<"STEM_HO_0", <<424400, 0, 356100>>>>, <<"STEM_HO_1", <<424400, 0, 356100>>>>,
                    <<"STEM_HO_2", <<444400, 0, 372900>>>>, <<"STEM_HO_3", <<442400, 0, 371200>>>>,
                    <<"STEM_HO_4", <<478500, 0, 401500>>>>, <<"STEM_HO_5", <<476600, 0, 399900>>>>,
                    <<"STEM_HO_6", <<496600, 0, 416700>>>>, <<"STEM_HO_7", <<496600, 0, 416700>>>>,
                    <<"STEM_HO_8", <<516600, 0, 433500>>>>, <<"STEM_HO_9", <<516600, 0, 433500>>>>,
                    <<"STEM_HO_10", <<536600, 0, 450300>>>>,
                    <<"STEM_HO_11", <<536600, 0, 450300>>>>,
                    <<"STEM_HO_12", <<536600, 0, 450300>>>> >>)

getTPR_01(p, aLabel) ==
  CASE p = "Corail" ->
         LET offset == Corail_getOffset(aLabel)
             at(T) == IF offset \in 0..(Len(T) - 1)
                        THEN [pre |-> Corail_isStem(aLabel), authored |-> TRUE, pt |-> T[offset + 1]]
                        ELSE [pre |-> Corail_isStem(aLabel), authored |-> FALSE, pt |-> <<0, 0, 0>>]
         IN IF Corail_isCCD_KS_STD135(aLabel) \/ Corail_isCCD_KA_STD135(aLabel) THEN
              at(<< <<-382900, 0, 382900>>, <<-387900, 0, 387900>>, <<-395400, 0, 395400>>,
                    <<-402900, 0, 402900>>, <<-410300, 0, 410300>>, <<-416700, 0, 416700>>,
                    <<-422900, 0, 422900>>, <<-430400, 0, 430400>>, <<-437900, 0, 437900>>,
                    <<-447800, 0, 447800>>, <<-457900, 0, 457900>> >>)
            ELSE IF Corail_isCCD_KHO_S_135(aLabel) \/ Corail_isCCD_KHO_A_135(aLabel) THEN
              at(<< <<-456500, 0, 456500>>, <<-464000, 0, 464000>>, <<-471500, 0, 471500>>,
                    <<-479000, 0, 479000>>, <<-485300, 0, 485300>>, <<-491500, 0, 491500>>,
                    <<-499000, 0, 499000>>, <<-506500, 0, 506500>>, <<-518300, 0, 518300>>,
                    <<-528600, 0, 528600>> >>)
            ELSE IF Corail_isCCD_KLA_125(aLabel) THEN
              at(<< <<-455900, 0, 319200>>, <<-463500, 0, 324500>>, <<-470900, 0, 329800>>,
                    <<-478300, 0, 334900>>, <<-484600, 0, 339300>>, <<-490800, 0, 343700>>,
                    <<-498300, 0, 348900>>, <<-505800, 0, 354100>>, <<-517800, 0, 362600>>,
                    <<-527900, 0, 369700>> >>)
            ELSE IF Corail_isCCD_STD125_S(aLabel) THEN
              at(<< <<-378700, 0, 265200>>, <<-383700, 0, 268700>>, <<-388700, 0, 272200>>,
                    <<-396200, 0, 277400>> >>)
            ELSE IF Corail_isCCD_STD125_A(aLabel) THEN
              at(<< <<-378700, 0, 265200>>, <<-383700, 0, 268700>>, <<-388700, 0, 272200>>,
                    <<-396200, 0, 277400>>, <<-403700, 0, 282700>>, <<-411200, 0, 287900>>,
                    <<-417400, 0, 292300>>, <<-423700, 0, 296700>> >>)
            ELSE IF Corail_isCCD_SN_S(aLabel) THEN
              at(<< <<-324900, 0, 324900>>, <<-329900, 0, 329900>>, <<-334900, 0, 334900>>,
                    <<-342400, 0, 342400>> >>)
            ELSE IF Corail_isCCD_SN_A(aLabel) THEN
              at(<< <<-324900, 0, 324900>>, <<-329900, 0, 329900>>, <<-334900, 0, 334900>>,
                    <<-342400, 0, 342400>>, <<-349900, 0, 349900>>, <<-357400, 0, 357400>>,
                    <<-363600, 0, 363600>>, <<-369900, 0, 369900>> >>)
            ELSE at(<< >>)
    [] p = "Amistem" ->
         LET sourceR == Amistem_getCCDRange(aLabel)
             sz == Amistem_getStemSize(aLabel)
             at(T) == IF sz \in 0..(Len(T) - 1)
                        THEN [pre |-> Amistem_isStem(aLabel), authored |-> TRUE, pt |-> <<0, T[sz + 1][1], T[sz + 1][2]>>]
                        ELSE [pre |-> Amistem_isStem(aLabel), authored |-> FALSE, pt |-> <<0, 0, 0>>]
         IN IF sourceR = Amistem_s3("RANGE_CCD_STD") THEN
              at(<< <<415000, 415000>>, <<419500, 419500>>, <<431900, 431900>>, <<444400, 444400>>,
                    <<457000, 457000>>, <<468400, 468400>>, <<480000, 480000>>, <<491800, 491800>>,
                    <<502500, 502500>>, <<514800, 514800>>, <<528700, 528700>> >>)
            ELSE IF sourceR = Amistem_s3("RANGE_CCD_LAT") THEN
              at(<< <<437300, 329600>>, <<451300, 340100>>, <<465400, 350700>>, <<479400, 361300>>,
                    <<493000, 371500>>, <<506100, 381400>>, <<519100, 391200>>, <<532600, 401300>>,
                    <<544100, 410000>> >>)
            ELSE IF sourceR = Amistem_s3("RANGE_CCD_STD_SN") THEN
              at(<< <<379600, 379600>>, <<384200, 384200>>, <<396500, 396500>>, <<409100, 409100>>,
                    <<421600, 421600>>, <<433000, 433000>>, <<444600, 444600>>, <<456400, 456400>>,
                    <<467200, 467200>>, <<479400, 479400>>, <<493300, 493300>> >>)
            ELSE IF sourceR = Amistem_s3("RANGE_CCD_LAT_SN") THEN
              at(<< <<437300, 329600>>, <<451300, 340100>>, <<456400, 350700>>, <<479400, 361300>>,
                    <<493000, 371500>>, <<506100, 381400>>, <<519100, 391200>>, <<532600, 401300>>,
                    <<544100, 410000>> >>)
            ELSE at(<< >>)
    [] p = "Ecofit" ->
         IF Ecofit_isCCD_STD_133(aLabel) THEN
           [pre |-> Ecofit_isStem(aLabel), authored |-> TRUE, pt |-> <<250900, 233900, 0>>]
         ELSE IF Ecofit_isCCD_STD_138(aLabel) THEN
           [pre |-> Ecofit_isStem(aLabel), authored |-> TRUE, pt |-> <<230200, 255600, 0>>]
         ELSE IF Ecofit_isCCD_CV(aLabel) THEN
           [pre |-> Ecofit_isStem(aLabel), authored |-> TRUE, pt |-> <<271200, 176100, 0>>]
         ELSE IF Ecofit_isCCD_LAT_133(aLabel) THEN
           [pre |-> Ecofit_isStem(aLabel), authored |-> TRUE, pt |-> <<292500, 272800, 0>>]
         ELSE IF Ecofit_isCCD_LAT_138(aLabel) THEN
           [pre |-> Ecofit_isStem(aLabel), authored |-> TRUE, pt |-> <<267700, 297400, 0>>]
         ELSE [pre |-> Ecofit_isStem(aLabel), authored |-> FALSE, pt |-> <<0, 0, 0>>]
    [] p = "Actis" ->
         LET hit(T) == {i \in 1..Len(T) : Actis_s3(T[i][1]) = aLabel}
             at(T) == IF hit(T) # {}
                        THEN [pre |-> Actis_isStem(aLabel), authored |-> TRUE, pt |-> T[CHOOSE i \in hit(T) : TRUE][2]]
                        ELSE [pre |-> Actis_isStem(aLabel), authored |-> FALSE, pt |-> <<0, 0, 0>>]
         IN IF Actis_getRangeStats(aLabel).subRange = Actis_s3("RANGE_CCD_STD") THEN
              at(<< <<"STEM_STD_0", <<362900, 0, 304500>>>>,
                    <<"STEM_STD_1", <<364400, 0, 305800>>>>,
                    <<"STEM_STD_2", <<384400, 0, 322600>>>>,
                    <<"STEM_STD_3", <<382400, 0, 320900>>>>,
                    <<"STEM_STD_4", <<398500, 0, 334400>>>>,
                    <<"STEM_STD_5", <<396600, 0, 332800>>>>,
                    <<"STEM_STD_6", <<416600, 0, 349600>>>>,
                    <<"STEM_STD_7", <<416600, 0, 349600>>>>,
                    <<"STEM_STD_8", <<436600, 0, 366400>>>>,
                    <<"STEM_STD_9", <<436600, 0, 366400>>>>,
                    <<"STEM_STD_10", <<456600, 0, 383200>>>>,
                    <<"STEM_STD_11", <<456600, 0, 383200>>>>,
                    <<"STEM_STD_12", <<456600, 0, 383200>>>> >>)
            ELSE
              at(<< <<"STEM_HO_0", <<424400, 0, 356100>>>>, <<"STEM_HO_1", <<424400, 0, 356100>>>>,
                    <<"STEM_HO_2", <<444400, 0, 372900>>>>, <<"STEM_HO_3", <<442400, 0, 371200>>>>,
                    <<"STEM_HO_4", <<478500, 0, 401500>>>>, <<"STEM_HO_5", <<476600, 0, 399900>>>>,
                    <<"STEM_HO_6", <<496600, 0, 416700>>>>, <<"STEM_HO_7", <<496600, 0, 416700>>>>,
                    <<"STEM_HO_8", <<516600, 0, 433500>>>>, <<"STEM_HO_9", <<516600, 0, 433500>>>>,
                    <<"STEM_HO_10", <<536600, 0, 450300>>>>,
                    <<"STEM_HO_11", <<536600, 0, 450300>>>>,
                    <<"STEM_HO_12", <<536600, 0, 450300>>>> >>)

(***************************************************************************)
(* TransformComposer.  An operation yields the conjunction of the          *)
(* conditions the HPROJ_DCHECK2 of the lookups it calls assert (pre: TRUE  *)
(* where it asserts nothing) and the value it returns when execution goes  *)
(* on (val).                                                               *)
(***************************************************************************)
\* the composer with the Corail lengths of HEAD_P4 and HEAD_P8 exchanged
headToStemMatrix_swapP4P8(p, aHeadLabel, aStemLabel) ==
  LET neckO == getRES_01(p, aStemLabel)
      headO == getTPR_01(p, aStemLabel)
      neckAxis == vsub(headO.pt, neckO.pt)
  IN
  CASE p = "Corail" ->
         LET l == IF aHeadLabel = Corail_s3("HEAD_M4") THEN 0 - 35000
                  ELSE IF aHeadLabel = Corail_s3("HEAD_P4") THEN 70000
                  ELSE IF aHeadLabel = Corail_s3("HEAD_P8") THEN 35000
                  ELSE 0
         IN [pre |-> neckO.pre /\ headO.pre, val |-> transMat3(along(headO.pt, neckAxis, l))]
    [] p = "Amistem" ->
         LET l0 == IF aHeadLabel = Amistem_s3("HEAD_M4") THEN 35355 * (0 - 2)
                   ELSE IF aHeadLabel = Amistem_s3("HEAD_P0") THEN 35355 * (0 - 1)
                   ELSE IF aHeadLabel = Amistem_s3("HEAD_P4") THEN 0
                   ELSE IF aHeadLabel = Amistem_s3("HEAD_P12") THEN 35355 * 2
                   ELSE 35355
             l == IF Amistem_isCCD_LAT(aStemLabel) THEN l0 + 9000 + 35355 ELSE l0
         IN [pre |-> neckO.pre /\ headO.pre, val |-> transMat3(along(headO.pt, neckAxis, l))]
    [] p = "Ecofit" ->
         LET l == IF aHeadLabel = Ecofit_s3("HEAD_M4") THEN 0 - 35300
                  ELSE IF aHeadLabel = Ecofit_s3("HEAD_P0") THEN 0
                  ELSE IF aHeadLabel = Ecofit_s3("HEAD_P4") THEN 35300
                  ELSE IF aHeadLabel = Ecofit_s3("HEAD_P8") THEN 71000
                  ELSE 0
         IN [pre |-> neckO.pre /\ headO.pre, val |-> transMat3(along(headO.pt, neckAxis, l))]
    [] p = "Actis" ->
         LET l == IF aHeadLabel = Actis_s3("HEAD_M4") THEN 0 - 35000
                  ELSE IF aHeadLabel = Actis_s3("HEAD_P0") THEN 0
                  ELSE IF aHeadLabel = Actis_s3("HEAD_P4") THEN 35000
                  ELSE IF aHeadLabel = Actis_s3("HEAD_P8") THEN 70000
                  ELSE 0
         IN [pre |-> neckO.pre /\ headO.pre, val |-> transMat3(along(headO.pt, neckAxis, l))]
    [] p = "Optimys" ->
         LET tx == IF Optimys_isCCD_STD(aStemLabel) THEN 0 - 125000 ELSE 0 - 85000
             ty0 == Optimys_getHeadTop(aStemLabel)
             ty == IF aHeadLabel = Optimys_s3("HEAD_M4") THEN ty0 - 80000
                   ELSE IF aHeadLabel = Optimys_s3("HEAD_P0") THEN ty0 - 40000
                   ELSE IF aHeadLabel = Optimys_s3("HEAD_P8") THEN ty0 + 40000
                   ELSE ty0
         IN [pre |-> TRUE,
             val |-> matMul(rotMatZ3(0 - 45), transMat3(SboPoint3(<<tx, ty, 0>>)))]
    [] p = "FIT" ->
         LET l == IF aHeadLabel = FIT_s3("HEAD_M4") THEN 0 - 80000
                  ELSE IF aHeadLabel = FIT_s3("HEAD_P0") THEN 0 - 40000
                  ELSE IF aHeadLabel = FIT_s3("HEAD_P4") THEN 0
                  ELSE IF aHeadLabel = FIT_s3("HEAD_P8") THEN 43000
                  ELSE 0
         IN [pre |-> TRUE, val |-> transMat3(SboPoint3(<<l, 0, 0>>))]

headToStemMatrix(p, aHeadLabel, aStemLabel) ==
  LET neckO == getRES_01(p, aStemLabel)
      headO == getTPR_01(p, aStemLabel)
      neckAxis == vsub(headO.pt, neckO.pt)
  IN
  CASE p = "Corail" ->
         LET l == IF aHeadLabel = Corail_s3("HEAD_M4") THEN 0 - 35000
                  ELSE IF aHeadLabel = Corail_s3("HEAD_P4") THEN 35000
                  ELSE IF aHeadLabel = Corail_s3("HEAD_P8") THEN 70000
                  ELSE 0
         IN [pre |-> neckO.pre /\ headO.pre, val |-> transMat3(along(headO.pt, neckAxis, l))]
    [] p = "Amistem" ->
         LET l0 == IF aHeadLabel = Amistem_s3("HEAD_M4") THEN 35355 * (0 - 2)
                   ELSE IF aHeadLabel = Amistem_s3("HEAD_P0") THEN 35355 * (0 - 1)
                   ELSE IF aHeadLabel = Amistem_s3("HEAD_P4") THEN 0
                   ELSE IF aHeadLabel = Amistem_s3("HEAD_P12") THEN 35355 * 2
                   ELSE 35355
             l == IF Amistem_isCCD_LAT(aStemLabel) THEN l0 + 9000 + 35355 ELSE l0
         IN [pre |-> neckO.pre /\ headO.pre, val |-> transMat3(along(headO.pt, neckAxis, l))]
    [] p = "Ecofit" ->
         LET l == IF aHeadLabel = Ecofit_s3("HEAD_M4") THEN 0 - 35300
                  ELSE IF aHeadLabel = Ecofit_s3("HEAD_P0") THEN 0
                  ELSE IF aHeadLabel = Ecofit_s3("HEAD_P4") THEN 35300
                  ELSE IF aHeadLabel = Ecofit_s3("HEAD_P8") THEN 71000
                  ELSE 0
         IN [pre |-> neckO.pre /\ headO.pre, val |-> transMat3(along(headO.pt, neckAxis, l))]
    [] p = "Actis" ->
         LET l == IF aHeadLabel = Actis_s3("HEAD_M4") THEN 0 - 35000
                  ELSE IF aHeadLabel = Actis_s3("HEAD_P0") THEN 0
                  ELSE IF aHeadLabel = Actis_s3("HEAD_P4") THEN 35000
                  ELSE IF aHeadLabel = Actis_s3("HEAD_P8") THEN 70000
                  ELSE 0
         IN [pre |-> neckO.pre /\ headO.pre, val |-> transMat3(along(headO.pt, neckAxis, l))]
    [] p = "Optimys" ->
         LET tx == IF Optimys_isCCD_STD(aStemLabel) THEN 0 - 125000 ELSE 0 - 85000
             ty0 == Optimys_getHeadTop(aStemLabel)
             ty == IF aHeadLabel = Optimys_s3("HEAD_M4") THEN ty0 - 80000
                   ELSE IF aHeadLabel = Optimys_s3("HEAD_P0") THEN ty0 - 40000
                   ELSE IF aHeadLabel = Optimys_s3("HEAD_P8") THEN ty0 + 40000
                   ELSE ty0
         IN [pre |-> TRUE,
             val |-> matMul(rotMatZ3(0 - 45), transMat3(SboPoint3(<<tx, ty, 0>>)))]
    [] p = "FIT" ->
         LET l == IF aHeadLabel = FIT_s3("HEAD_M4") THEN 0 - 80000
                  ELSE IF aHeadLabel = FIT_s3("HEAD_P0") THEN 0 - 40000
                  ELSE IF aHeadLabel = FIT_s3("HEAD_P4") THEN 0
                  ELSE IF aHeadLabel = FIT_s3("HEAD_P8") THEN 43000
                  ELSE 0
         IN [pre |-> TRUE, val |-> transMat3(SboPoint3(<<l, 0, 0>>))]

\* the planes with another distance for the size 5 of FIT
cutPlane_FIT5(p, aStemLabel) ==
  LET neckO == getRES_01(p, aStemLabel)
      t == transMat3(SboPoint3(neckO.pt))
      plane == SboPlane3(SboPoint3(<<0, 0, 0>>), <<0, 1, 0>>)
  IN
  CASE p = "Corail" ->
         LET m == matMul(matMul(t, rotMatY3(0 - 45)), rotMatX3(90))
         IN [pre |-> neckO.pre,
             val |-> IF Corail_hasCollar(aStemLabel) THEN SboML_offset(transform(plane, m), 0 - 1000)
                     ELSE transform(plane, m)]
    [] p = "Amistem" ->
         [pre |-> neckO.pre, val |-> transform(plane, matMul(t, rotMatX3(45)))]
    [] p = "Ecofit" ->
         [pre |-> neckO.pre, val |-> transform(plane, matMul(t, rotMatZ3(0 - 42)))]
    [] p = "Actis" ->
         [pre |-> neckO.pre,
          val |-> transform(plane, matMul(matMul(t, rotMatY3(40)), rotMatX3(90)))]
    [] p = "Optimys" ->
         LET tx == IF Optimys_isCCD_STD(aStemLabel) THEN 0 - 125000 ELSE 0 - 85000
             m0 == matMul(rotMatZ3(0 - 45), transMat3(SboPoint3(<<tx, 0, 0>>)))
             neckO2 == imageOfOrigin(m0)
         IN [pre |-> TRUE,
             val |-> transform(plane, matMul(transMat3(neckO2), rotMatZ3(0 - 45)))]
    [] p = "FIT" ->
         LET l == CASE FIT_getItemSize(aStemLabel) = 2 -> 0 - 365000
                    [] FIT_getItemSize(aStemLabel) = 3 -> 0 - 380000
                    [] FIT_getItemSize(aStemLabel) = 4 -> 0 - 395000
                    [] FIT_getItemSize(aStemLabel) = 5 -> 0 - 414000
                    [] FIT_getItemSize(aStemLabel) = 6 -> 0 - 434000
                    [] FIT_getItemSize(aStemLabel) = 7 -> 0 - 456000
                    [] OTHER -> 0 - 344000
         IN [pre |-> TRUE, val |-> SboPlane3(SboPoint3(<<l, 0, 0>>), <<1, 0, 0>>)]

cutPlane(p, aStemLabel) ==
  LET neckO == getRES_01(p, aStemLabel)
      t == transMat3(SboPoint3(neckO.pt))
      plane == SboPlane3(SboPoint3(<<0, 0, 0>>), <<0, 1, 0>>)
  IN
  CASE p = "Corail" ->
         LET m == matMul(matMul(t, rotMatY3(0 - 45)), rotMatX3(90))
         IN [pre |-> neckO.pre,
             val |-> IF Corail_hasCollar(aStemLabel) THEN SboML_offset(transform(plane, m), 0 - 1000)
                     ELSE transform(plane, m)]
    [] p = "Amistem" ->
         [pre |-> neckO.pre, val |-> transform(plane, matMul(t, rotMatX3(45)))]
    [] p = "Ecofit" ->
         [pre |-> neckO.pre, val |-> transform(plane, matMul(t, rotMatZ3(0 - 42)))]
    [] p = "Actis" ->
         [pre |-> neckO.pre,
          val |-> transform(plane, matMul(matMul(t, rotMatY3(40)), rotMatX3(90)))]
    [] p = "Optimys" ->
         LET tx == IF Optimys_isCCD_STD(aStemLabel) THEN 0 - 125000 ELSE 0 - 85000
             m0 == matMul(rotMatZ3(0 - 45), transMat3(SboPoint3(<<tx, 0, 0>>)))
             neckO2 == imageOfOrigin(m0)
         IN [pre |-> TRUE,
             val |-> transform(plane, matMul(transMat3(neckO2), rotMatZ3(0 - 45)))]
    [] p = "FIT" ->
         LET l == CASE FIT_getItemSize(aStemLabel) = 2 -> 0 - 365000
                    [] FIT_getItemSize(aStemLabel) = 3 -> 0 - 380000
                    [] FIT_getItemSize(aStemLabel) = 4 -> 0 - 395000
                    [] FIT_getItemSize(aStemLabel) = 5 -> 0 - 415000
                    [] FIT_getItemSize(aStemLabel) = 6 -> 0 - 434000
                    [] FIT_getItemSize(aStemLabel) = 7 -> 0 - 456000
                    [] OTHER -> 0 - 344000
         IN [pre |-> TRUE, val |-> SboPlane3(SboPoint3(<<l, 0, 0>>), <<1, 0, 0>>)]

\* the box of Corail with the half extent 22 mm
cutPlaneBbox_halfExtent22(p, aStemLabel) ==
  CASE p = "Corail" ->
         [pre |-> TRUE,
          val |-> makeBbox3(<<0 - 220000, 0 - 220000, 0 - 220000>>, <<220000, 220000, 220000>>,
                            SboPoint3(<<0, 0, 0>>))]
    [] p = "Amistem" ->
         [pre |-> getRES_01(p, aStemLabel).pre,
          val |-> makeBbox3(<<0 - 400000, 0 - 800000, 0 - 400000>>, <<400000, 800000, 400000>>,
                            SboPoint3(getRES_01(p, aStemLabel).pt))]
    [] p = "Ecofit" ->
         [pre |-> getRES_01(p, aStemLabel).pre,
          val |-> makeBbox3(<<0 - 250000, 0 - 250000, 0 - 250000>>, <<250000, 250000, 250000>>,
                            SboPoint3(getRES_01(p, aStemLabel).pt))]
    [] p = "Actis" ->
         [pre |-> getRES_01(p, aStemLabel).pre,
          val |-> makeBbox3(<<0 - 500000, 0 - 250000, 0 - 250000>>, <<500000, 250000, 250000>>,
                            SboPoint3(getRES_01(p, aStemLabel).pt))]
    [] p = "Optimys" ->
         LET tx == IF Optimys_isCCD_STD(aStemLabel) THEN 0 - 125000 ELSE 0 - 85000
             m0 == matMul(rotMatZ3(0 - 45), transMat3(SboPoint3(<<tx, 0, 0>>)))
         IN [pre |-> TRUE,
             val |-> makeBbox3(<<0 - 300000, 0 - 250000, 0 - 250000>>,
                               <<300000, 250000, 250000>>, imageOfOrigin(m0))]
    [] p = "FIT" ->
         LET l == CASE FIT_getItemSize(aStemLabel) = 2 -> 0 - 365000
                    [] FIT_getItemSize(aStemLabel) = 3 -> 0 - 380000
                    [] FIT_getItemSize(aStemLabel) = 4 -> 0 - 395000
                    [] FIT_getItemSize(aStemLabel) = 5 -> 0 - 415000
                    [] FIT_getItemSize(aStemLabel) = 6 -> 0 - 434000
                    [] FIT_getItemSize(aStemLabel) = 7 -> 0 - 456000
                    [] OTHER -> 0 - 344000
         IN [pre |-> TRUE,
             val |-> makeBbox3(<<0 - 250000, 0 - 250000, 0 - 250000>>,
                               <<250000, 250000, 250000>>, SboPoint3(<<l, 0, 0>>))]

cutPlaneBbox(p, aStemLabel) ==
  CASE p = "Corail" ->
         [pre |-> TRUE,
          val |-> makeBbox3(<<0 - 250000, 0 - 250000, 0 - 250000>>, <<250000, 250000, 250000>>,
                            SboPoint3(<<0, 0, 0>>))]
    [] p = "Amistem" ->
         [pre |-> getRES_01(p, aStemLabel).pre,
          val |-> makeBbox3(<<0 - 400000, 0 - 800000, 0 - 400000>>, <<400000, 800000, 400000>>,
                            SboPoint3(getRES_01(p, aStemLabel).pt))]
    [] p = "Ecofit" ->
         [pre |-> getRES_01(p, aStemLabel).pre,
          val |-> makeBbox3(<<0 - 250000, 0 - 250000, 0 - 250000>>, <<250000, 250000, 250000>>,
                            SboPoint3(getRES_01(p, aStemLabel).pt))]
    [] p = "Actis" ->
         [pre |-> getRES_01(p, aStemLabel).pre,
          val |-> makeBbox3(<<0 - 500000, 0 - 250000, 0 - 250000>>, <<500000, 250000, 250000>>,
                            SboPoint3(getRES_01(p, aStemLabel).pt))]
    [] p = "Optimys" ->
         LET tx == IF Optimys_isCCD_STD(aStemLabel) THEN 0 - 125000 ELSE 0 - 85000
             m0 == matMul(rotMatZ3(0 - 45), transMat3(SboPoint3(<<tx, 0, 0>>)))
         IN [pre |-> TRUE,
             val |-> makeBbox3(<<0 - 300000, 0 - 250000, 0 - 250000>>,
                               <<300000, 250000, 250000>>, imageOfOrigin(m0))]
    [] p = "FIT" ->
         LET l == CASE FIT_getItemSize(aStemLabel) = 2 -> 0 - 365000
                    [] FIT_getItemSize(aStemLabel) = 3 -> 0 - 380000
                    [] FIT_getItemSize(aStemLabel) = 4 -> 0 - 395000
                    [] FIT_getItemSize(aStemLabel) = 5 -> 0 - 415000
                    [] FIT_getItemSize(aStemLabel) = 6 -> 0 - 434000
                    [] FIT_getItemSize(aStemLabel) = 7 -> 0 - 456000
                    [] OTHER -> 0 - 344000
         IN [pre |-> TRUE,
             val |-> makeBbox3(<<0 - 250000, 0 - 250000, 0 - 250000>>,
                               <<250000, 250000, 250000>>, SboPoint3(<<l, 0, 0>>))]

\* Amistem isSTD: the two standard families
Amistem_isSTD(l) == Amistem_isCCD_STD(l) \/ Amistem_isCCD_STD_SN(l)

\* the chain of "if(sz == k) t = ..." over the rows <<k, t>>; t stays 0 without a row
Amistem_rowOf(sz, T) ==
  IF \E i \in 1..Len(T) : T[i][1] = sz THEN T[CHOOSE i \in 1..Len(T) : T[i][1] = sz][2] ELSE 0

\* the shifts with another value in the row of size 3 from LAT to STD
Amistem_getShift_body_row3(aSourceL, aTargetL, neckOS, neckOT, sz) ==
  LET pre == neckOS.pre /\ neckOT.pre
      diff == transMat3(SboPoint3(vsub(neckOS.pt, neckOT.pt)))
      z(t) == transMat3(SboPoint3(<<0, 0, t>>))
  IN
  IF Amistem_isSTD(aSourceL) /\ Amistem_isSTD(aTargetL) THEN
    [pre |-> pre, val |-> diff, handled |-> TRUE]
  ELSE IF Amistem_isCCD_LAT(aSourceL) /\ Amistem_isCCD_LAT(aTargetL) THEN
    [pre |-> pre, val |-> diff, handled |-> TRUE]
  ELSE IF Amistem_isCCD_LAT_SN(aSourceL) /\ Amistem_isCCD_LAT_SN(aTargetL) THEN
    [pre |-> pre, val |-> diff, handled |-> TRUE]
  ELSE IF Amistem_isCCD_STD(aSourceL) /\ Amistem_isCCD_LAT(aTargetL) THEN
    [pre |-> pre, handled |-> TRUE,
     val |-> z(Amistem_rowOf(sz, << <<1, 58900>>, <<2, 60300>>, <<3, 62200>>, <<4, 63900>>,
                                    <<5, 65500>>, <<6, 67100>>, <<7, 68500>>, <<8, 70000>>,
                                    <<9, 72600>> >>))]
  ELSE IF Amistem_isCCD_LAT(aSourceL) /\ Amistem_isCCD_STD(aTargetL) THEN
    [pre |-> pre, handled |-> TRUE,
     val |-> z(0 - Amistem_rowOf(sz, << <<0, 58900>>, <<1, 60300>>, <<2, 62200>>, <<3, 63800>>,
                                        <<4, 65500>>, <<5, 67100>>, <<6, 68500>>, <<7, 70000>>,
                                        <<8, 72600>> >>))]
  ELSE IF Amistem_isCCD_STD_SN(aSourceL) /\ Amistem_isCCD_LAT_SN(aTargetL) THEN
    [pre |-> pre, handled |-> TRUE,
     val |-> z(Amistem_rowOf(sz, << <<1, 50100>>, <<2, 51900>>, <<3, 53800>>, <<4, 55800>>,
                                    <<5, 56900>>, <<6, 58700>>, <<7, 60700>>, <<8, 61300>>,
                                    <<9, 64800>> >>))]
  ELSE IF Amistem_isCCD_LAT_SN(aSourceL) /\ Amistem_isCCD_STD_SN(aTargetL) THEN
    [pre |-> pre, handled |-> TRUE,
     val |-> z(0 - Amistem_rowOf(sz, << <<0, 50100>>, <<1, 51900>>, <<2, 53800>>, <<3, 55800>>,
                                        <<4, 56900>>, <<5, 58700>>, <<6, 60700>>, <<7, 61300>>,
                                        <<8, 64800>> >>))]
  ELSE [pre |-> pre, val |-> idMat3, handled |-> FALSE]

\* the body of getShift over its locals: the neck origins of the source and of the
\* target and the size of the source.  handled is FALSE where the code falls
\* through to its final "return idMat3()"
Amistem_getShift_body(aSourceL, aTargetL, neckOS, neckOT, sz) ==
  LET pre == neckOS.pre /\ neckOT.pre
      diff == transMat3(SboPoint3(vsub(neckOS.pt, neckOT.pt)))
      z(t) == transMat3(SboPoint3(<<0, 0, t>>))
  IN
  IF Amistem_isSTD(aSourceL) /\ Amistem_isSTD(aTargetL) THEN
    [pre |-> pre, val |-> diff, handled |-> TRUE]
  ELSE IF Amistem_isCCD_LAT(aSourceL) /\ Amistem_isCCD_LAT(aTargetL) THEN
    [pre |-> pre, val |-> diff, handled |-> TRUE]
  ELSE IF Amistem_isCCD_LAT_SN(aSourceL) /\ Amistem_isCCD_LAT_SN(aTargetL) THEN
    [pre |-> pre, val |-> diff, handled |-> TRUE]
  ELSE IF Amistem_isCCD_STD(aSourceL) /\ Amistem_isCCD_LAT(aTargetL) THEN
    [pre |-> pre, handled |-> TRUE,
     val |-> z(Amistem_rowOf(sz, << <<1, 58900>>, <<2, 60300>>, <<3, 62200>>, <<4, 63900>>,
                                    <<5, 65500>>, <<6, 67100>>, <<7, 68500>>, <<8, 70000>>,
                                    <<9, 72600>> >>))]
  ELSE IF Amistem_isCCD_LAT(aSourceL) /\ Amistem_isCCD_STD(aTargetL) THEN
    [pre |-> pre, handled |-> TRUE,
     val |-> z(0 - Amistem_rowOf(sz, << <<0, 58900>>, <<1, 60300>>, <<2, 62200>>, <<3, 63900>>,
                                        <<4, 65500>>, <<5, 67100>>, <<6, 68500>>, <<7, 70000>>,
                                        <<8, 72600>> >>))]
  ELSE IF Amistem_isCCD_STD_SN(aSourceL) /\ Amistem_isCCD_LAT_SN(aTargetL) THEN
    [pre |-> pre, handled |-> TRUE,
     val |-> z(Amistem_rowOf(sz, << <<1, 50100>>, <<2, 51900>>, <<3, 53800>>, <<4, 55800>>,
                                    <<5, 56900>>, <<6, 58700>>, <<7, 60700>>, <<8, 61300>>,
                                    <<9, 64800>> >>))]
  ELSE IF Amistem_isCCD_LAT_SN(aSourceL) /\ Amistem_isCCD_STD_SN(aTargetL) THEN
    [pre |-> pre, handled |-> TRUE,
     val |-> z(0 - Amistem_rowOf(sz, << <<0, 50100>>, <<1, 51900>>, <<2, 53800>>, <<3, 55800>>,
                                        <<4, 56900>>, <<5, 58700>>, <<6, 60700>>, <<7, 61300>>,
                                        <<8, 64800>> >>))]
  ELSE [pre |-> pre, val |-> idMat3, handled |-> FALSE]

\* Amistem getShift: the matrix from a source stem to a target stem for the pairs
\* of families the data sheet covers
Amistem_getShift(aSourceL, aTargetL) ==
  Amistem_getShift_body(aSourceL, aTargetL, getRES_01("Amistem", aSourceL),
                        getRES_01("Amistem", aTargetL), Amistem_getStemSize(aSourceL))

\* getShift(m, t) * getShift(o, m): the calls of a path through one stem
Amistem_via1(o, m, t) == << <<o, m>>, <<m, t>> >>

\* getShift(n, t) * getShift(m, n) * getShift(o, m): the calls of a path through two stems
Amistem_via2(o, m, n, t) == << <<o, m>>, <<m, n>>, <<n, t>> >>

\* the calls with the path from LAT to LAT SN cut short to one stem in between
Amistem_stemToStemCalls_shortCut(aO, aT) ==
  IF Amistem_isCCD_STD(aO) /\ Amistem_isCCD_LAT_SN(aT) THEN
    Amistem_via1(aO, Amistem_getSimilarLabel(aO, Amistem_s3("RANGE_CCD_STD_SN")), aT)
  ELSE IF Amistem_isCCD_LAT_SN(aO) /\ Amistem_isCCD_STD(aT) THEN
    Amistem_via1(aO, Amistem_getSimilarLabel(aT, Amistem_s3("RANGE_CCD_STD_SN")), aT)
  ELSE IF Amistem_isCCD_LAT_SN(aO) /\ Amistem_isCCD_LAT(aT) THEN
    Amistem_via2(aO, Amistem_getSimilarLabel(aO, Amistem_s3("RANGE_CCD_STD_SN")),
                 Amistem_getSimilarLabel(aT, Amistem_s3("RANGE_CCD_STD")), aT)
  ELSE IF Amistem_isCCD_STD_SN(aO) /\ Amistem_isCCD_LAT(aT) THEN
    Amistem_via1(aO, Amistem_getSimilarLabel(aO, Amistem_s3("RANGE_CCD_STD")), aT)
  ELSE IF Amistem_isCCD_LAT(aO) /\ Amistem_isCCD_STD_SN(aT) THEN
    Amistem_via1(aO, Amistem_getSimilarLabel(aO, Amistem_s3("RANGE_CCD_STD")), aT)
  ELSE IF Amistem_isCCD_LAT(aO) /\ Amistem_isCCD_LAT_SN(aT) THEN
    Amistem_via1(aO, Amistem_getSimilarLabel(aO, Amistem_s3("RANGE_CCD_STD")), aT)
  ELSE << <<aO, aT>> >>

\* the getShift calls <<source, target>> of stemToStemMatrix, in the order the
\* matrices apply.  The data sheet has no path between LAT and LAT SN, and STD and
\* STD SN are matched at the neck origin, so the missing paths go through STD and
\* STD SN
Amistem_stemToStemCalls(aO, aT) ==
  IF Amistem_isCCD_STD(aO) /\ Amistem_isCCD_LAT_SN(aT) THEN
    Amistem_via1(aO, Amistem_getSimilarLabel(aO, Amistem_s3("RANGE_CCD_STD_SN")), aT)
  ELSE IF Amistem_isCCD_LAT_SN(aO) /\ Amistem_isCCD_STD(aT) THEN
    Amistem_via1(aO, Amistem_getSimilarLabel(aT, Amistem_s3("RANGE_CCD_STD_SN")), aT)
  ELSE IF Amistem_isCCD_LAT_SN(aO) /\ Amistem_isCCD_LAT(aT) THEN
    Amistem_via2(aO, Amistem_getSimilarLabel(aO, Amistem_s3("RANGE_CCD_STD_SN")),
                 Amistem_getSimilarLabel(aT, Amistem_s3("RANGE_CCD_STD")), aT)
  ELSE IF Amistem_isCCD_STD_SN(aO) /\ Amistem_isCCD_LAT(aT) THEN
    Amistem_via1(aO, Amistem_getSimilarLabel(aO, Amistem_s3("RANGE_CCD_STD")), aT)
  ELSE IF Amistem_isCCD_LAT(aO) /\ Amistem_isCCD_STD_SN(aT) THEN
    Amistem_via1(aO, Amistem_getSimilarLabel(aO, Amistem_s3("RANGE_CCD_STD")), aT)
  ELSE IF Amistem_isCCD_LAT(aO) /\ Amistem_isCCD_LAT_SN(aT) THEN
    Amistem_via2(aO, Amistem_getSimilarLabel(aO, Amistem_s3("RANGE_CCD_STD")),
                 Amistem_getSimilarLabel(aT, Amistem_s3("RANGE_CCD_STD_SN")), aT)
  ELSE << <<aO, aT>> >>

\* left * right of two matrices that carry their checks
Amistem_times(left, right) ==
  [pre |-> left.pre /\ right.pre, val |-> matMul(left.val, right.val)]

RECURSIVE Amistem_shifts(_)

\* the product of the getShift matrices of the calls: a later call is a left factor
Amistem_shifts(calls) ==
  IF calls = << >> THEN [pre |-> TRUE, val |-> idMat3]
  ELSE Amistem_times(Amistem_shifts(Tail(calls)), Amistem_getShift(calls[1][1], calls[1][2]))

\* SboAmistem::stemToStemMatrix
Amistem_stemToStemMatrix(aOriginFemIC, aTargetFemIC) ==
  Amistem_shifts(Amistem_stemToStemCalls(aOriginFemIC.stemLabel, aTargetFemIC.stemLabel))

\* the matrix that takes the origin at its neck origin (RES_01)
stemToStemMatrix_byRES_01(p, aOriginFemIC, aTargetFemIC) ==
  IF p = "Optimys" THEN [pre |-> TRUE, val |-> idMat3]
  ELSE IF p = "Amistem" THEN Amistem_stemToStemMatrix(aOriginFemIC, aTargetFemIC)
  ELSE LET neck2 == getRES_01(p, aOriginFemIC.stemLabel)
           neckT2 == getRES_02(p, aTargetFemIC.stemLabel)
       IN [pre |-> neck2.pre /\ neckT2.pre,
           val |-> transMat3(SboPoint3(vsub(neck2.pt, neckT2.pt)))]

\* the matrix from the origin stem to the target stem, in the frame of the cut plane
stemToStemMatrix(p, aOriginFemIC, aTargetFemIC) ==
  IF p = "Optimys" THEN [pre |-> TRUE, val |-> idMat3]
  ELSE IF p = "Amistem" THEN Amistem_stemToStemMatrix(aOriginFemIC, aTargetFemIC)
  ELSE LET neck2 == getRES_02(p, aOriginFemIC.stemLabel)
           neckT2 == getRES_02(p, aTargetFemIC.stemLabel)
       IN [pre |-> neck2.pre /\ neckT2.pre,
           val |-> transMat3(SboPoint3(vsub(neck2.pt, neckT2.pt)))]

\* FIT without the translation to the cut plane
normalTrf_rotationOnly(p, aStemLabel) ==
  CASE p = "Corail" -> [pre |-> TRUE, val |-> rotMatZ3(180)]
    [] p = "Amistem" -> [pre |-> TRUE, val |-> rotMatZ3(0 - 90)]
    [] p = "Ecofit" -> [pre |-> TRUE, val |-> rotMatX3(90)]
    [] p = "Actis" -> [pre |-> TRUE, val |-> idMat3]
    [] p = "Optimys" -> [pre |-> TRUE, val |-> rotMatX3(90)]
    [] p = "FIT" ->
         LET l == CASE FIT_getItemSize(aStemLabel) = 2 -> 365000
                    [] FIT_getItemSize(aStemLabel) = 3 -> 380000
                    [] FIT_getItemSize(aStemLabel) = 4 -> 395000
                    [] FIT_getItemSize(aStemLabel) = 5 -> 415000
                    [] FIT_getItemSize(aStemLabel) = 6 -> 434000
                    [] FIT_getItemSize(aStemLabel) = 7 -> 456000
                    [] OTHER -> 344000
             t == transMat3(SboPoint3(<<l, 0, 0>>))
             r1 == rotMatX3(90)
             r2 == rotMatY3(0 - 45)
             r3 == rotMatX3(IF FIT_isRight(aStemLabel) THEN 5 ELSE 0 - 5)
             r4 == rotMatY3(4)
         IN [pre |-> TRUE, val |-> matMul(matMul(matMul(r4, r3), r2), r1)]

normalTrf(p, aStemLabel) ==
  CASE p = "Corail" -> [pre |-> TRUE, val |-> rotMatZ3(180)]
    [] p = "Amistem" -> [pre |-> TRUE, val |-> rotMatZ3(0 - 90)]
    [] p = "Ecofit" -> [pre |-> TRUE, val |-> rotMatX3(90)]
    [] p = "Actis" -> [pre |-> TRUE, val |-> idMat3]
    [] p = "Optimys" -> [pre |-> TRUE, val |-> rotMatX3(90)]
    [] p = "FIT" ->
         LET l == CASE FIT_getItemSize(aStemLabel) = 2 -> 365000
                    [] FIT_getItemSize(aStemLabel) = 3 -> 380000
                    [] FIT_getItemSize(aStemLabel) = 4 -> 395000
                    [] FIT_getItemSize(aStemLabel) = 5 -> 415000
                    [] FIT_getItemSize(aStemLabel) = 6 -> 434000
                    [] FIT_getItemSize(aStemLabel) = 7 -> 456000
                    [] OTHER -> 344000
             t == transMat3(SboPoint3(<<l, 0, 0>>))
             r1 == rotMatX3(90)
             r2 == rotMatY3(0 - 45)
             r3 == rotMatX3(IF FIT_isRight(aStemLabel) THEN 5 ELSE 0 - 5)
             r4 == rotMatY3(4)
         IN [pre |-> TRUE, val |-> matMul(matMul(matMul(matMul(r4, r3), r2), r1), t)]

\* rotMatZ3(180) maps (x, y, z) to (-x, -y, z)
offsetFF(p, aStemLabel) ==
  CASE p = "Corail" ->
         LET neckO == getRES_01(p, aStemLabel)
             femAxs == <<0, 0, 0 - 250000>>
             d == vsub(neckO.pt, femAxs)
         IN [pre |-> neckO.pre, val |-> <<0 - d[1], 0, 0>>]
    [] p = "Amistem" -> [pre |-> TRUE, val |-> <<120000, 0, 0>>]
    [] p = "Ecofit" -> [pre |-> TRUE, val |-> <<150000, 0, 100000>>]
    [] p = "Actis" -> [pre |-> TRUE, val |-> <<150000, 0, 50000>>]
    [] p = "Optimys" -> [pre |-> TRUE, val |-> <<0, 0, 0>>]
    [] p = "FIT" ->
         LET l == CASE FIT_getItemSize(aStemLabel) = 2 -> 365000 - 344000 + 140000
                    [] FIT_getItemSize(aStemLabel) = 3 -> 380000 - 344000 + 130000
                    [] FIT_getItemSize(aStemLabel) = 4 -> 395000 - 344000 + 120000
                    [] FIT_getItemSize(aStemLabel) = 5 -> 415000 - 344000 + 110000
                    [] FIT_getItemSize(aStemLabel) = 6 -> 434000 - 344000 + 100000
                    [] FIT_getItemSize(aStemLabel) = 7 -> 456000 - 344000 + 90000
                    [] OTHER -> 150000
         IN [pre |-> TRUE, val |-> <<l, 0, 0>>]

(***************************************************************************)
(* The host calls the composer with the labels of its configuration.       *)
(***************************************************************************)
\* the five schemes above and FIT
Schemes == Products \cup {"FIT"}

\* the schemes that keep landmark tables
LandmarkSchemes == {"Corail", "Amistem", "Ecofit", "Actis"}

\* the schemes of which stemToStemMatrix is modelled
StemToStemSchemes == Products

isStemOf(p, l) == IF p = "FIT" THEN l \in FIT_stemRange ELSE isStem(p, l)

isHeadOf(p, l) == IF p = "FIT" THEN l \in FIT_headRange ELSE isHead(p, l)

\* every label of the scheme, Margin labels around them, and the unset label
ComposerLabels(p) ==
  IF p = "FIT"
    THEN ((FIT_s3("STEM_1_R") - Margin)..(FIT_s3("HEAD_P8") + Margin)) \cup {NullLabel}
    ELSE AllLabels(p)

\* the heads of the scheme and two labels that are no head
ComposerHeads(p) ==
  {l \in ComposerLabels(p) : isHeadOf(p, l)}
    \cup {NullLabel, IF p = "FIT" THEN FIT_s3("CUTPLANE") ELSE CUTPLANE(p)}

\* target stems: the origin itself, the ends of the stem labels, their neighbours
\* that are no stem, and the similar labels of the origin in every family
ComposerTargets(p, aOrigin) ==
  {aOrigin, NullLabel}
    \cup {l \in ComposerLabels(p) : isStemOf(p, l) /\ (~isStemOf(p, l - 1) \/ ~isStemOf(p, l + 1))}
    \cup {l \in ComposerLabels(p) : ~isStemOf(p, l) /\ isStemOf(p, l - 1)}
    \cup (IF p # "FIT" /\ isStem(p, aOrigin)
            THEN {similarLabel(p, aOrigin, R) : R \in RangeMarkers(p)} ELSE {})

ComposerSweep(p) ==
  {SboFemImplantConfig("Right", st, hd) : st \in ComposerLabels(p), hd \in ComposerHeads(p)}

InitComposer ==
  /\ prod \in Schemes
  /\ femIC \in ComposerSweep(prod)
  /\ last = NoCall
  /\ pc = "ready"

\* HPROJ_DCHECK2 is compiled into a debug build and out of a release build
Builds == {"debug", "release"}

\* a call whose outcome is r = [pre, val] in the build b: a debug build stops at a
\* failed check, a release build goes on and returns the value
Call(op, aHeadLabel, aStemLabel, aTargetLabel, r) ==
  /\ pc = "ready"
  /\ \E b \in Builds :
       /\ last' = [op |-> op, headLabel |-> aHeadLabel, stemLabel |-> aStemLabel,
                   targetLabel |-> aTargetLabel, build |-> b, tripped |-> ~r.pre,
                   returned |-> (r.pre \/ b = "release"),
                   val |-> IF r.pre \/ b = "release" THEN r.val ELSE << >>]
       /\ pc' = IF ~r.pre /\ b = "debug" THEN "aborted" ELSE "ready"
  /\ UNCHANGED <<prod, femIC>>

GetRES_01 ==
  /\ prod \in LandmarkSchemes
  /\ LET r == getRES_01(prod, femIC.stemLabel)
     IN Call("getRES_01", NullLabel, femIC.stemLabel, NullLabel, [pre |-> r.pre, val |-> r])

GetRES_02 ==
  /\ prod \in LandmarkSchemes
  /\ LET r == getRES_02(prod, femIC.stemLabel)
     IN Call("getRES_02", NullLabel, femIC.stemLabel, NullLabel, [pre |-> r.pre, val |-> r])

GetTPR_01 ==
  /\ prod \in LandmarkSchemes
  /\ LET r == getTPR_01(prod, femIC.stemLabel)
     IN Call("getTPR_01", NullLabel, femIC.stemLabel, NullLabel, [pre |-> r.pre, val |-> r])

HeadToStemMatrix ==
  /\ prod \in Schemes
  /\ Call("headToStemMatrix", femIC.headLabel, femIC.stemLabel, NullLabel,
          headToStemMatrix(prod, femIC.headLabel, femIC.stemLabel))

CutPlane ==
  /\ prod \in Schemes
  /\ Call("cutPlane", NullLabel, femIC.stemLabel, NullLabel, cutPlane(prod, femIC.stemLabel))

CutPlaneBbox ==
  /\ prod \in Schemes
  /\ Call("cutPlaneBbox", NullLabel, femIC.stemLabel, NullLabel,
          cutPlaneBbox(prod, femIC.stemLabel))

StemToStemMatrix(aTargetLabel) ==
  /\ prod \in StemToStemSchemes
  /\ Call("stemToStemMatrix", NullLabel, femIC.stemLabel, aTargetLabel,
          stemToStemMatrix(prod, femIC, [femIC EXCEPT !.stemLabel = aTargetLabel]))

NormalTrf ==
  /\ prod \in Schemes
  /\ Call("normalTrf", NullLabel, femIC.stemLabel, NullLabel, normalTrf(prod, femIC.stemLabel))

OffsetFF ==
  /\ prod \in Schemes
  /\ Call("offsetFF", NullLabel, femIC.stemLabel, NullLabel, offsetFF(prod, femIC.stemLabel))

NextComposer ==
  \/ GetRES_01
  \/ GetRES_02
  \/ GetTPR_01
  \/ HeadToStemMatrix
  \/ CutPlane
  \/ CutPlaneBbox
  \/ \E t \in ComposerTargets(prod, femIC.stemLabel) : StemToStemMatrix(t)
  \/ NormalTrf
  \/ OffsetFF

SpecComposer == InitComposer /\ [][NextComposer]_vars

(***************************************************************************)
(* Sizes, catalog names and the chained stem-to-stem matrix of Amistem     *)
(***************************************************************************)
\* Optimys getSize: the distance to the first label of the family, 0 for no stem
Optimys_getSize(aL) ==
  IF Optimys_isCCD_STD(aL) THEN aL - Optimys_s3("STEM_STD_1")
  ELSE IF Optimys_isCCD_LAT(aL) THEN aL - Optimys_s3("STEM_LAT_1")
  ELSE 0

\* the offset of a stem label as each scheme computes it
getSize(p, aL) ==
  CASE p = "Corail" -> Corail_getOffset(aL)
    [] p = "Amistem" -> Amistem_getStemSize(aL)
    [] p = "Ecofit" -> R_size(Ecofit_getRangeStats(aL), aL)
    [] p = "Actis" -> R_size(Actis_getRangeStats(aL), aL)
    [] p = "Optimys" -> Optimys_getSize(aL)

\* inRange of every scheme: the closed interval of its labels
inRange(p, aL) == in_closed_range(aL, lowerS3UID(p), upperS3UID(p))

\* SboCorail::parts: the stem items <<label, size>>, the size being the text after
\* the last blank of the item name ("KS 135 8" has the size "8")
Corail_parts ==
  << <<"STEM_KS_STD135_0", "8">>, <<"STEM_KS_STD135_1", "9">>, <<"STEM_KS_STD135_2", "10">>,
     <<"STEM_KS_STD135_3", "11">>, <<"STEM_KS_STD135_4", "12">>, <<"STEM_KS_STD135_5", "13">>,
     <<"STEM_KS_STD135_6", "14">>, <<"STEM_KS_STD135_7", "15">>, <<"STEM_KS_STD135_8", "16">>,
     <<"STEM_KS_STD135_9", "18">>, <<"STEM_KS_STD135_10", "20">>, <<"STEM_KA_STD135_0", "8">>,
     <<"STEM_KA_STD135_1", "9">>, <<"STEM_KA_STD135_2", "10">>, <<"STEM_KA_STD135_3", "11">>,
     <<"STEM_KA_STD135_4", "12">>, <<"STEM_KA_STD135_5", "13">>, <<"STEM_KA_STD135_6", "14">>,
     <<"STEM_KA_STD135_7", "15">>, <<"STEM_KA_STD135_8", "16">>, <<"STEM_KA_STD135_9", "18">>,
     <<"STEM_KA_STD135_10", "20">>, <<"STEM_KHO_S_135_0", "9">>, <<"STEM_KHO_S_135_1", "10">>,
     <<"STEM_KHO_S_135_2", "11">>, <<"STEM_KHO_S_135_3", "12">>, <<"STEM_KHO_S_135_4", "13">>,
     <<"STEM_KHO_S_135_5", "14">>, <<"STEM_KHO_S_135_6", "15">>, <<"STEM_KHO_S_135_7", "16">>,
     <<"STEM_KHO_S_135_8", "18">>, <<"STEM_KHO_S_135_9", "20">>, <<"STEM_KHO_A_135_0", "9">>,
     <<"STEM_KHO_A_135_1", "10">>, <<"STEM_KHO_A_135_2", "11">>, <<"STEM_KHO_A_135_3", "12">>,
     <<"STEM_KHO_A_135_4", "13">>, <<"STEM_KHO_A_135_5", "14">>, <<"STEM_KHO_A_135_6", "15">>,
     <<"STEM_KHO_A_135_7", "16">>, <<"STEM_KHO_A_135_8", "18">>, <<"STEM_KHO_A_135_9", "20">>,
     <<"STEM_KLA_125_0", "9">>, <<"STEM_KLA_125_1", "10">>, <<"STEM_KLA_125_2", "11">>,
     <<"STEM_KLA_125_3", "12">>, <<"STEM_KLA_125_4", "13">>, <<"STEM_KLA_125_5", "14">>,
     <<"STEM_KLA_125_6", "15">>, <<"STEM_KLA_125_7", "16">>, <<"STEM_KLA_125_8", "18">>,
     <<"STEM_KLA_125_9", "20">>, <<"STEM_STD125_S_0", "7">>, <<"STEM_STD125_S_1", "8">>,
     <<"STEM_STD125_S_2", "9">>, <<"STEM_STD125_S_3", "10">>, <<"STEM_STD125_A_0", "7">>,
     <<"STEM_STD125_A_1", "8">>, <<"STEM_STD125_A_2", "9">>, <<"STEM_STD125_A_3", "10">>,
     <<"STEM_STD125_A_4", "11">>, <<"STEM_STD125_A_5", "12">>, <<"STEM_STD125_A_6", "13">>,
     <<"STEM_STD125_A_7", "14">>, <<"STEM_SN_S_0", "7">>, <<"STEM_SN_S_1", "8">>,
     <<"STEM_SN_S_2", "9">>, <<"STEM_SN_S_3", "10">>, <<"STEM_SN_A_0", "7">>,
     <<"STEM_SN_A_1", "8">>, <<"STEM_SN_A_2", "9">>, <<"STEM_SN_A_3", "10">>,
     <<"STEM_SN_A_4", "11">>, <<"STEM_SN_A_5", "12">>, <<"STEM_SN_A_6", "13">>,
     <<"STEM_SN_A_7", "14">> >>

\* SboAmistem::parts: the stem items <<label, size>>
Amistem_parts ==
  << <<"STEM_STD_0", "00">>, <<"STEM_STD_1", "0">>, <<"STEM_STD_2", "1">>,
     <<"STEM_STD_3", "2">>, <<"STEM_STD_4", "3">>, <<"STEM_STD_5", "4">>,
     <<"STEM_STD_6", "5">>, <<"STEM_STD_7", "6">>, <<"STEM_STD_8", "7">>,
     <<"STEM_STD_9", "8">>, <<"STEM_STD_10", "9">>, <<"STEM_LAT_0", "0">>,
     <<"STEM_LAT_1", "1">>, <<"STEM_LAT_2", "2">>, <<"STEM_LAT_3", "3">>,
     <<"STEM_LAT_4", "4">>, <<"STEM_LAT_5", "5">>, <<"STEM_LAT_6", "6">>,
     <<"STEM_LAT_7", "7">>, <<"STEM_LAT_8", "8">>, <<"STEM_STD_SN_0", "00">>,
     <<"STEM_STD_SN_1", "0">>, <<"STEM_STD_SN_2", "1">>, <<"STEM_STD_SN_3", "2">>,
     <<"STEM_STD_SN_4", "3">>, <<"STEM_STD_SN_5", "4">>, <<"STEM_STD_SN_6", "5">>,
     <<"STEM_STD_SN_7", "6">>, <<"STEM_STD_SN_8", "7">>, <<"STEM_STD_SN_9", "8">>,
     <<"STEM_STD_SN_10", "9">>, <<"STEM_LAT_SN_0", "0">>, <<"STEM_LAT_SN_1", "1">>,
     <<"STEM_LAT_SN_2", "2">>, <<"STEM_LAT_SN_3", "3">>, <<"STEM_LAT_SN_4", "4">>,
     <<"STEM_LAT_SN_5", "5">>, <<"STEM_LAT_SN_6", "6">>, <<"STEM_LAT_SN_7", "7">>,
     <<"STEM_LAT_SN_8", "8">> >>

\* SboEcofitStem::parts: the stem items <<label, size>>
Ecofit_parts ==
  << <<"STEM_STD_133_0", "6,25">>, <<"STEM_STD_133_1", "7,5">>, <<"STEM_STD_133_2", "8,75">>,
     <<"STEM_STD_133_3", "10">>, <<"STEM_STD_133_4", "11,25">>, <<"STEM_STD_133_5", "12,5">>,
     <<"STEM_STD_133_6", "13,75">>, <<"STEM_STD_133_7", "15">>, <<"STEM_STD_133_8", "16,25">>,
     <<"STEM_STD_133_9", "17,5">>, <<"STEM_STD_133_10", "18,75">>,
     <<"STEM_STD_133_11", "20">>, <<"STEM_LAT_133_0", "6,25">>, <<"STEM_LAT_133_1", "7,5">>,
     <<"STEM_LAT_133_2", "8,75">>, <<"STEM_LAT_133_3", "10">>, <<"STEM_LAT_133_4", "11,25">>,
     <<"STEM_LAT_133_5", "12,5">>, <<"STEM_LAT_133_6", "13,75">>, <<"STEM_LAT_133_7", "15">>,
     <<"STEM_LAT_133_8", "16,25">>, <<"STEM_LAT_133_9", "17.5">>,
     <<"STEM_LAT_133_10", "18,75">>, <<"STEM_LAT_133_11", "20">>,
     <<"STEM_STD_138_0", "6,25">>, <<"STEM_STD_138_1", "7,5">>, <<"STEM_STD_138_2", "8,75">>,
     <<"STEM_STD_138_3", "10">>, <<"STEM_STD_138_4", "11,25">>, <<"STEM_STD_138_5", "12,5">>,
     <<"STEM_STD_138_6", "13,75">>, <<"STEM_STD_138_7", "15">>, <<"STEM_STD_138_8", "17,5">>,
     <<"STEM_STD_138_9", "20">>, <<"STEM_LAT_138_0", "6,25">>, <<"STEM_LAT_138_1", "7,5">>,
     <<"STEM_LAT_138_2", "8,75">>, <<"STEM_LAT_138_3", "10">>, <<"STEM_LAT_138_4", "11,25">>,
     <<"STEM_LAT_138_5", "12,5">>, <<"STEM_LAT_138_6", "13,75">>, <<"STEM_LAT_138_7", "15">>,
     <<"STEM_LAT_138_8", "17,5">>, <<"STEM_LAT_138_9", "20">>, <<"STEM_CV_0", "6,25">>,
     <<"STEM_CV_1", "7,5">>, <<"STEM_CV_2", "8,75">>, <<"STEM_CV_3", "10">>,
     <<"STEM_CV_4", "11,25">>, <<"STEM_CV_5", "12,5">>, <<"STEM_CV_6", "13,75">>,
     <<"STEM_CV_7", "15">>, <<"STEM_CV_8", "17,5">>, <<"STEM_CV_9", "20">> >>

\* the rows of the stem items of a scheme with the labels in place of their names
parts(p) ==
  CASE p = "Corail" -> [i \in 1..Len(Corail_parts) |-> <<Corail_s3(Corail_parts[i][1]), Corail_parts[i][2]>>]
    [] p = "Amistem" -> [i \in 1..Len(Amistem_parts) |-> <<Amistem_s3(Amistem_parts[i][1]), Amistem_parts[i][2]>>]
    [] p = "Ecofit" -> [i \in 1..Len(Ecofit_parts) |-> <<Ecofit_s3(Ecofit_parts[i][1]), Ecofit_parts[i][2]>>]

(***************************************************************************)
(* Properties of the label classifier                                      *)
(***************************************************************************)
\* the range markers whose isCCD_* predicate accepts l
SubRangesOf(p, l) == {r \in RangeMarkers(p) : isCCD(p, r, l)}

\* C1: in each product every label that isStem accepts satisfies exactly one
\* isCCD_* predicate, the one getCCDRange names, and a label that isStem
\* rejects satisfies none: the sub-ranges are pairwise disjoint and cover
\* exactly the stem labels.
C1_SubRangesPartitionStems ==
  \A l \in {femIC.stemLabel, last.arg.stemLabel} :
    IF isStem(prod, l)
      THEN /\ Cardinality(SubRangesOf(prod, l)) = 1
           /\ SubRangesOf(prod, l) = {getCCDRange(prod, l)}
      ELSE SubRangesOf(prod, l) = {}

\* a stem at the last offset of one sub-range, next to the first label of another
C1_Witness ==
  /\ prod = "Corail"
  /\ last.op = "nextPrev"
  /\ last.arg.stemLabel = Corail_s3("STEM_KS_STD135_10")
  /\ isStem(prod, femIC.stemLabel)
  /\ SubRangesOf(prod, femIC.stemLabel) = {Corail_s3("RANGE_CCD_KS_STD135")}

\* C2: nextPrevStem applied to a stem label at offset k of its sub-range gives
\* the label of the same sub-range at offset k+1 (forward) or k-1 (backward)
\* when that offset lies in [0, maxOffset], and the label itself otherwise;
\* the result is always in the sub-range of the argument.
C2_NextPrevStemStaysInSubRange ==
  (last.op = "nextPrev" /\ pc = "ready" /\ isStem(prod, last.arg.stemLabel)) =>
    LET l == last.arg.stemLabel
        R == getCCDRange(prod, l)
        k == l - label0(prod, R)
        k2 == IF last.aNext THEN k + 1 ELSE k - 1
    IN /\ k \in 0..maxOffset(prod, R)
       /\ femIC.stemLabel = IF k2 \in 0..maxOffset(prod, R) THEN label0(prod, R) + k2 ELSE l
       /\ isCCD(prod, R, femIC.stemLabel)

\* stepping forward from the last STD stem, whose successor label is the first LAT stem
C2_Witness ==
  /\ prod = "Amistem"
  /\ last.op = "nextPrev"
  /\ last.aNext
  /\ last.arg.stemLabel = Amistem_s3("STEM_STD_10")
  /\ isStem(prod, last.arg.stemLabel + 1)
  /\ femIC.stemLabel = Amistem_s3("STEM_STD_10")

(***************************************************************************)
(* Properties of the similar-label resolver                                *)
(***************************************************************************)
\* C3: similarLabel of a stem label and the range marker of the label's own
\* sub-range is the label itself.
C3_SimilarLabelOwnRangeIsIdentity ==
  (last.op = "similarLabel" /\ last.aRange = getCCDRange(prod, last.arg.stemLabel)) =>
    femIC.stemLabel = last.arg.stemLabel

\* a stem away from offset 0 of a sub-range whose start index is not 0, switched to its own family
C3_Witness ==
  /\ prod = "Corail"
  /\ last.op = "similarLabel"
  /\ last.arg.stemLabel = Corail_s3("STEM_KA_STD135_10")
  /\ last.aRange = Corail_s3("RANGE_CCD_KA_STD135")
  /\ femIC.stemLabel = Corail_s3("STEM_KA_STD135_10")

\* the offset of a stem label in its own sub-range
offsetOf(p, l) == l - label0(p, getCCDRange(p, l))

\* the size index of offset 0 of a Corail family, relative to the KS/KA
\* families: the shifts of getSimilarOffset are differences of these
Corail_FirstSize(r) ==
  IF r \in {Corail_s3("RANGE_CCD_KS_STD135"), Corail_s3("RANGE_CCD_KA_STD135")} THEN 0
  ELSE IF r \in {Corail_s3("RANGE_CCD_KHO_S_135"), Corail_s3("RANGE_CCD_KHO_A_135"),
                 Corail_s3("RANGE_CCD_KLA_125")} THEN 1
  ELSE 0 - 1

Corail_ShortFamily(r) == r \in {Corail_s3("RANGE_CCD_STD125_S"), Corail_s3("RANGE_CCD_SN_S")}

\* the size index of offset 0 of an Amistem family, relative to STD/STD_SN
Amistem_FirstSize(r) ==
  IF r \in {Amistem_s3("RANGE_CCD_LAT"), Amistem_s3("RANGE_CCD_LAT_SN")} THEN 1 ELSE 0

\* the offset the authored rule asks for in the target sub-range, before any clamp
RuleOffset(p, l, R) ==
  LET S == getCCDRange(p, l)
      k == offsetOf(p, l)
  IN CASE p = "Corail" -> k + Corail_FirstSize(S) - Corail_FirstSize(R)
       [] p = "Amistem" -> k + Amistem_FirstSize(S) - Amistem_FirstSize(R)
       [] p = "Ecofit" ->
            IF Ecofit_isSubRange133(S) /\ ~Ecofit_isSubRange133(R)
              THEN (IF k = 9 THEN 8 ELSE IF k = 11 THEN 9 ELSE k)
            ELSE IF ~Ecofit_isSubRange133(S) /\ Ecofit_isSubRange133(R)
              THEN (IF k = 8 THEN 9 ELSE IF k = 9 THEN 11 ELSE k)
            ELSE k
       [] OTHER -> k

\* a rule is written in the code for the pair (S, R) of sub-ranges
RuleAuthored(p, S, R) ==
  CASE p = "Corail" -> \/ Corail_FirstSize(S) # Corail_FirstSize(R)
                       \/ /\ Corail_FirstSize(S) = 0 - 1
                          /\ Corail_ShortFamily(S) # Corail_ShortFamily(R)
    [] p = "Amistem" -> S # R /\ (Amistem_FirstSize(S) = 0 \/ Amistem_FirstSize(R) = 0)
    [] p = "Ecofit" -> Ecofit_isSubRange133(S) # Ecofit_isSubRange133(R)
    [] OTHER -> FALSE

\* Amistem: a STD or STD_SN stem of size 0 or 10 asked into LAT or LAT_SN
NoLateralSize(p, l, R) ==
  /\ p = "Amistem"
  /\ getCCDRange(p, l) \in {Amistem_s3("RANGE_CCD_STD"), Amistem_s3("RANGE_CCD_STD_SN")}
  /\ R \in {Amistem_s3("RANGE_CCD_LAT"), Amistem_s3("RANGE_CCD_LAT_SN")}
  /\ offsetOf(p, l) \in {0, 10}

\* l is a label of the sub-range of marker R, at an offset in [0, maxOffset]
MemberOf(p, R, l) ==
  /\ isCCD(p, R, l)
  /\ (l - label0(p, R)) \in 0..maxOffset(p, R)

\* C4 as stated: for every stem label and every range marker R the result of
\* similarLabel is a member of R.
C4_ResultAlwaysInTarget ==
  last.op = "similarLabel" => MemberOf(prod, last.aRange, femIC.stemLabel)

\* C4 amended: the result of similarLabel is a member of the target sub-range
\* R, at an offset in [0, R.maxOffset], except for an Amistem STD or STD_SN
\* stem of size 0 or 10 asked into LAT or LAT_SN, where the result is the
\* source label, which is not a member of R.
C4_ResultInTargetButAmistemEnds ==
  last.op = "similarLabel" =>
    IF NoLateralSize(prod, last.arg.stemLabel, last.aRange)
      THEN /\ femIC.stemLabel = last.arg.stemLabel
           /\ ~MemberOf(prod, last.aRange, femIC.stemLabel)
      ELSE MemberOf(prod, last.aRange, femIC.stemLabel)

\* a size beyond the target family, clamped to the last label of the target
C4_Witness ==
  /\ prod = "Ecofit"
  /\ last.op = "similarLabel"
  /\ last.arg.stemLabel = Ecofit_s3("STEM_STD_133_10")
  /\ last.aRange = Ecofit_s3("RANGE_CCD_STD_138")
  /\ femIC.stemLabel = Ecofit_s3("STEM_STD_138_9")

\* C5: Amistem: a STD or STD_SN stem of size 0 or 10 switched to LAT or LAT_SN
\* comes back unchanged; a size in 1..9 gives the LAT or LAT_SN label at
\* index size - 1.
C5_AmistemStdToLat ==
  ( /\ prod = "Amistem"
    /\ last.op = "similarLabel"
    /\ getCCDRange(prod, last.arg.stemLabel)
         \in {Amistem_s3("RANGE_CCD_STD"), Amistem_s3("RANGE_CCD_STD_SN")}
    /\ last.aRange \in {Amistem_s3("RANGE_CCD_LAT"), Amistem_s3("RANGE_CCD_LAT_SN")} ) =>
    LET size == Amistem_getStemSize(last.arg.stemLabel) IN
    IF size \in {0, 10}
      THEN femIC.stemLabel = last.arg.stemLabel
      ELSE /\ size \in 1..9
           /\ femIC.stemLabel =
                (IF last.aRange = Amistem_s3("RANGE_CCD_LAT")
                   THEN Amistem_s3("STEM_LAT_0") ELSE Amistem_s3("STEM_LAT_SN_0")) + (size - 1)

\* the largest short-neck standard stem asked into the lateral family
C5_Witness ==
  /\ prod = "Amistem"
  /\ last.op = "similarLabel"
  /\ last.arg.stemLabel = Amistem_s3("STEM_STD_SN_10")
  /\ last.aRange = Amistem_s3("RANGE_CCD_LAT")
  /\ femIC.stemLabel = Amistem_s3("STEM_STD_SN_10")

\* C6 as stated: in every product, when no rule is authored for the pair or
\* the shifted offset falls outside the target sub-range, similarLabel returns
\* the source label unchanged, and raises no error.
C6_NoCorrespondentKeepsSource ==
  LET l == last.arg.stemLabel
      S == getCCDRange(prod, l)
      R == last.aRange
  IN ( /\ last.op = "similarLabel"
       /\ R # S
       /\ \/ ~RuleAuthored(prod, S, R)
          \/ RuleOffset(prod, l, R) \notin 0..maxOffset(prod, R) ) =>
       (femIC.stemLabel = l /\ pc = "ready")

\* C6 amended: similarLabel raises no error; it returns the source label
\* unchanged only for an Amistem STD or STD_SN stem of size 0 or 10 asked into
\* LAT or LAT_SN (and for the label's own sub-range); in every other case it
\* returns the label of the target sub-range at the rule's offset clamped into
\* [0, maxOffset], which is the source's own offset where no rule is authored.
C6_ClampedUnlessAmistemEnds ==
  last.op = "similarLabel" =>
    LET l == last.arg.stemLabel
        R == last.aRange
    IN /\ pc = "ready"
       /\ femIC.stemLabel =
            IF NoLateralSize(prod, l, R) THEN l
            ELSE label0(prod, R) + clamp(RuleOffset(prod, l, R), 0, maxOffset(prod, R))
       /\ (femIC.stemLabel = l) <=> (NoLateralSize(prod, l, R) \/ R = getCCDRange(prod, l))

\* the smallest KS stem asked into KHO S, which starts one size later
C6_Witness ==
  /\ prod = "Corail"
  /\ last.op = "similarLabel"
  /\ last.arg.stemLabel = Corail_s3("STEM_KS_STD135_0")
  /\ last.aRange = Corail_s3("RANGE_CCD_KHO_S_135")
  /\ RuleOffset(prod, last.arg.stemLabel, last.aRange) = 0 - 1
  /\ femIC.stemLabel = Corail_s3("STEM_KHO_S_135_0")

\* the forward step found the size asked for: the rule's offset lies in the
\* target sub-range and no other size of the source shares the target label
ExactSize(p, l, R) ==
  /\ RuleOffset(p, l, R) \in 0..maxOffset(p, R)
  /\ ~( /\ p = "Ecofit"
        /\ Ecofit_isSubRange133(getCCDRange(p, l))
        /\ ~Ecofit_isSubRange133(R)
        /\ offsetOf(p, l) = 8 )

\* similarLabel applied to the current stem and the sub-range of the stem before the switch
RoundTrip == similarLabel(prod, femIC.stemLabel, getCCDRange(prod, last.arg.stemLabel))

\* C7 as stated: in Corail, Amistem and Ecofit, for a target with rules in
\* both directions, switching to the target and back to the label's own
\* sub-range gives a label of that sub-range at the original offset.
C7_RoundTripKeepsOffset ==
  LET l == last.arg.stemLabel
      S == getCCDRange(prod, l)
  IN ( /\ last.op = "similarLabel"
       /\ prod \in {"Corail", "Amistem", "Ecofit"}
       /\ RuleAuthored(prod, S, last.aRange)
       /\ RuleAuthored(prod, last.aRange, S) ) =>
       (isCCD(prod, S, RoundTrip) /\ offsetOf(prod, RoundTrip) = offsetOf(prod, l))

\* C7 amended: in Corail, Amistem and Ecofit the round trip always gives a
\* label of l's sub-range; in Amistem it is l; in Corail and Ecofit it is l
\* exactly when the forward step found the size asked for (the rule's offset
\* lies in the target sub-range and, in Ecofit, l is not the 133 size 8 that
\* shares a 138/CV label with size 9), and another label of l's sub-range
\* when the forward step clamped or merged the size.
C7_RoundTripExactSizes ==
  LET l == last.arg.stemLabel
      S == getCCDRange(prod, l)
  IN (last.op = "similarLabel" /\ prod \in {"Corail", "Amistem", "Ecofit"}) =>
       /\ MemberOf(prod, S, RoundTrip)
       /\ IF prod = "Amistem" THEN RoundTrip = l
          ELSE (RoundTrip = l) <=> ExactSize(prod, l, last.aRange)

\* a 138 stem of the last size switched to the 133 family, from where it comes back
C7_Witness ==
  /\ prod = "Ecofit"
  /\ last.op = "similarLabel"
  /\ last.arg.stemLabel = Ecofit_s3("STEM_LAT_138_9")
  /\ last.aRange = Ecofit_s3("RANGE_CCD_LAT_133")
  /\ femIC.stemLabel = Ecofit_s3("STEM_LAT_133_11")
  /\ RoundTrip = Ecofit_s3("STEM_LAT_138_9")

(***************************************************************************)
(* Properties of fillAndValidAssembly                                      *)
(***************************************************************************)
\* the parts of a record form an assembly: a stem, a head and no neck
PartsFit(p, c) == isStem(p, c.stemLabel) /\ isHead(p, c.headLabel) /\ ~isSet(c.neckLabel)

\* C8: for a requested side other than None, fillAndValidAssembly returns
\* validAssembly = TRUE exactly when the stem label is a stem, the head label
\* is a head and no neck label is set, FALSE otherwise, and raises no error.
C8_ValidIffPartsFit ==
  (last.op = "fillAndValidAssembly" /\ last.arg.requestedSide # SideNone) =>
    /\ femIC.validAssembly = PartsFit(prod, last.arg)
    /\ pc = "ready"

\* a sided request with a stem, a head and no neck, found valid
C8_Witness ==
  /\ prod = "Actis"
  /\ last.op = "fillAndValidAssembly"
  /\ last.arg.requestedSide = "Left"
  /\ PartsFit(prod, last.arg)
  /\ femIC.validAssembly

\* C9: the products without a side (Corail, Amistem, Optimys) ignore the
\* requested side: with a stem, a head and no neck the record is valid
\* whatever the requested side, None included.
C9_SideFreeIgnoresSide ==
  ( /\ last.op = "fillAndValidAssembly"
    /\ prod \in {"Corail", "Amistem", "Optimys"}
    /\ PartsFit(prod, last.arg) ) =>
    femIC.validAssembly

\* C10: the product names are stamped only on success: a valid result has the
\* stem and head names set to the product name and the neck name cleared; an
\* invalid result has the stem, head, neck and distal-shaft names of the
\* input; a sided request whose stem is no stem and whose head is a head is
\* invalid and keeps the stem product name.
C10_NamesStampedOnlyOnSuccess ==
  last.op = "fillAndValidAssembly" =>
    /\ IF femIC.validAssembly
         THEN /\ femIC.stemProductName = productName(prod)
              /\ femIC.headProductName = productName(prod)
              /\ femIC.neckProductName = NoName
         ELSE /\ femIC.stemProductName = last.arg.stemProductName
              /\ femIC.headProductName = last.arg.headProductName
              /\ femIC.neckProductName = last.arg.neckProductName
              /\ femIC.distalShaftProductName = last.arg.distalShaftProductName
    /\ ( /\ last.arg.requestedSide # SideNone
         /\ ~isStem(prod, last.arg.stemLabel)
         /\ isHead(prod, last.arg.headLabel) ) =>
         (~femIC.validAssembly /\ femIC.stemProductName = last.arg.stemProductName)

\* a sided request with a head and a label that is no stem, on a record that
\* carries the names of another product
C10_Witness ==
  /\ prod = "Ecofit"
  /\ last.op = "fillAndValidAssembly"
  /\ last.arg.requestedSide = "Left"
  /\ SubRangesOf(prod, last.arg.stemLabel) = {}
  /\ isHead(prod, last.arg.headLabel)
  /\ last.arg.stemProductName = ForeignName
  /\ ~femIC.validAssembly
  /\ femIC.stemProductName = ForeignName

(***************************************************************************)
(* Properties of defaultFemIC and nextPrev                                 *)
(***************************************************************************)
\* C11: defaultFemIC returns, for every requested side (Left, Right or None),
\* a record with the product's default stem label, default head label and
\* CUTPLANE label and validAssembly = TRUE: the check placed after
\* fillAndValidAssembly never fails.
C11_DefaultFemICAlwaysValid ==
  last.op = "defaultFemIC" =>
    /\ pc = "ready"
    /\ femIC.validAssembly
    /\ femIC.stemLabel = defaultS3StemUID(prod)
    /\ femIC.headLabel = defaultS3HeadUID(prod)
    /\ femIC.cutPlaneLabel = CUTPLANE(prod)

\* C12: nextPrev returns a copy of its argument in which only the stem label
\* may differ, and the stem label is nextPrevStem of the argument's: the
\* validAssembly flag, the sides, the head, neck and cutplane labels and the
\* product names are those of the argument.
C12_NextPrevChangesOnlyStem ==
  (last.op = "nextPrev" /\ pc = "ready") =>
    /\ \A f \in (DOMAIN femIC) \ {"stemLabel"} : femIC[f] = last.arg[f]
    /\ femIC.stemLabel = nextPrevStem(prod, last.arg.stemLabel, last.aNext)

\* a record that was never validated, stepped to the next size and still not flagged valid
C12_Witness ==
  /\ prod = "Optimys"
  /\ last.op = "nextPrev"
  /\ isStem(prod, last.arg.stemLabel)
  /\ femIC.stemLabel = last.arg.stemLabel + 1
  /\ isHead(prod, femIC.headLabel)
  /\ ~femIC.validAssembly
  /\ femIC.stemProductName = NoName

(***************************************************************************)
(* Properties of the transform composer and of the landmark tables         *)
(***************************************************************************)
\* the head offset lengths of Corail, in 1/10000 mm
Corail_L(aHeadLabel) ==
  CASE aHeadLabel = Corail_s3("HEAD_M4") -> 0 - 35000
    [] aHeadLabel = Corail_s3("HEAD_P0") -> 0
    [] aHeadLabel = Corail_s3("HEAD_P4") -> 35000
    [] aHeadLabel = Corail_s3("HEAD_P8") -> 70000

\* C13: in Corail headToStemMatrix(head, stem), for a stem and a head, is one
\* translation and nothing else, by TPR_01(stem) + axis * L(head), where axis is
\* the unit vector of TPR_01(stem) - RES_01(stem), which is not the zero vector,
\* and L is -3.5, 0, +3.5, +7.0 for HEAD_M4, HEAD_P0, HEAD_P4, HEAD_P8; for
\* STEM_KS_STD135_5 and HEAD_P4 it is (-41.67, 0, 41.67) + axis * 3.5.
C13_CorailHeadToStemIsTranslation ==
  (/\ prod = "Corail" /\ last.op = "headToStemMatrix" /\ last.returned
   /\ isStem(prod, last.stemLabel) /\ isHead(prod, last.headLabel)) =>
    LET TPR_01 == getTPR_01(prod, last.stemLabel).pt
        RES_01 == getRES_01(prod, last.stemLabel).pt
    IN /\ Len(last.val) = 1
       /\ isTrans(last.val[1])
       /\ last.val[1].v = along(TPR_01, vsub(TPR_01, RES_01), Corail_L(last.headLabel))
       /\ ~isNaN(last.val[1].v)
       /\ (last.stemLabel = Corail_s3("STEM_KS_STD135_5")
             /\ last.headLabel = Corail_s3("HEAD_P4")) =>
            /\ last.val[1].v.o = <<0 - 416700, 0, 416700>>
            /\ last.val[1].v.axis = <<144400 - 416700, 0, 416700 - 144400>>
            /\ last.val[1].v.l = 35000

C13_Witness ==
  /\ prod = "Corail" /\ last.op = "headToStemMatrix" /\ last.returned
  /\ last.stemLabel = Corail_s3("STEM_KS_STD135_5")
  /\ last.headLabel = Corail_s3("HEAD_P4")
  /\ last.val[1].v.l = 35000

\* the stem labels of a scheme among the labels of the model
StemsOf(p) == {l \in ComposerLabels(p) : isStemOf(p, l)}

\* a configuration that differs from the host's one in the stem label
WithStem(l) == [femIC EXCEPT !.stemLabel = l]

\* C14: in Corail, Actis and Ecofit stemToStemMatrix(origin, target), for two
\* stems, is the translation by RES_02(origin) - RES_02(target) and nothing
\* else; the matrix A -> B times the matrix B -> C is the matrix A -> C for
\* every stem C, and the matrix A -> A is the identity.
C14_StemToStemIsRES_02Difference ==
  (/\ prod \in {"Corail", "Actis", "Ecofit"} /\ last.op = "stemToStemMatrix" /\ last.returned
   /\ isStem(prod, last.stemLabel) /\ isStem(prod, last.targetLabel)) =>
    LET A == last.stemLabel
        B == last.targetLabel
    IN /\ last.val = transMat3(SboPoint3(vsub(getRES_02(prod, A).pt, getRES_02(prod, B).pt)))
       /\ \A i \in 1..Len(last.val) : isPlainTrans(last.val[i])
       /\ Len(last.val) <= 1
       /\ A = B => last.val = idMat3
       /\ \A C \in StemsOf(prod) :
            matMul(last.val, stemToStemMatrix(prod, WithStem(B), WithStem(C)).val)
              = stemToStemMatrix(prod, WithStem(A), WithStem(C)).val

C14_Witness ==
  /\ prod = "Actis" /\ last.op = "stemToStemMatrix" /\ last.returned
  /\ last.stemLabel = Actis_s3("STEM_STD_3")
  /\ last.targetLabel = Actis_s3("STEM_HO_12")
  /\ last.val = transMat3(SboPoint3(<<225100 - 294100, 0, 30100 - 89600>>))

\* the centre of a box: the point it is translated to plus the middle of its extent
\* (the extents of every scheme are symmetric, so the middle is the zero vector)
Centre(aBox) ==
  IF vadd(aBox.pmin, aBox.pmax) = <<0, 0, 0>> THEN aBox.at
  ELSE [aBox.at EXCEPT !.o = vadd(aBox.at.o, <<(aBox.pmin[1] + aBox.pmax[1]) \div 2,
                                               (aBox.pmin[2] + aBox.pmax[2]) \div 2,
                                               (aBox.pmin[3] + aBox.pmax[3]) \div 2>>)]

\* C15: for every stem label of the schemes that keep RES_01 (Corail, Amistem,
\* Ecofit, Actis) the centre of the box of cutPlaneBbox(stem) is RES_01(stem).
C15_BboxCentreIsNeckOrigin ==
  (/\ prod \in LandmarkSchemes /\ last.op = "cutPlaneBbox" /\ last.returned
   /\ isStem(prod, last.stemLabel)) =>
    Centre(last.val) = SboPoint3(getRES_01(prod, last.stemLabel).pt)

\* aPoint lies in aBox with the distance slack to every face: two equal terms
\* differ by the zero vector, two points without rotation and axis by the
\* difference of their coordinates; nothing is known of other pairs
InsideBy(aPoint, aBox, slack) ==
  LET d == IF aPoint = aBox.at THEN <<0, 0, 0>> ELSE vsub(aPoint.o, aBox.at.o)
  IN /\ aPoint = aBox.at \/ (/\ aPoint.rot = << >> /\ aPoint.axis = << >>
                             /\ aBox.at.rot = << >> /\ aBox.at.axis = << >>)
     /\ \A i \in 1..3 : aBox.pmin[i] + slack <= d[i] /\ d[i] <= aBox.pmax[i] - slack

\* C16: for every stem label of every scheme the point the plane of
\* cutPlane(stem) is built through lies inside the box of cutPlaneBbox(stem), and
\* at least as far from its faces as the plane is moved along its normal (0.1 mm
\* for the collared stems of Corail), so the box meets the plane.
C16_BboxMeetsCutPlane ==
  (last.op = "cutPlaneBbox" /\ last.returned /\ isStemOf(prod, last.stemLabel)) =>
    LET plane == cutPlane(prod, last.stemLabel).val
        dist == IF plane.d < 0 THEN 0 - plane.d ELSE plane.d
    IN /\ InsideBy(plane.o, last.val, 0)
       /\ InsideBy(plane.o, last.val, dist)

C16_Witness ==
  /\ prod = "Corail" /\ last.op = "cutPlaneBbox" /\ last.returned
  /\ last.stemLabel = Corail_s3("STEM_KHO_A_135_9")
  /\ cutPlane(prod, last.stemLabel).val.d = 0 - 1000
  /\ cutPlane(prod, last.stemLabel).val.o = SboPoint3(<<0 - 221000, 0, 221000>>)
  /\ last.val.at = SboPoint3(<<0, 0, 0>>)

\* the x of the FIT cut plane for the seven sizes, in 1/10000 mm
FIT_SizeLength == <<344000, 365000, 380000, 395000, 415000, 434000, 456000>>

\* the size a FIT stem label names: STEM_k_R and STEM_k_L name the size k
FIT_SizeOf(l) ==
  IF l <= FIT_s3("STEM_7_R") THEN l - FIT_s3("STEM_1_R") + 1 ELSE l - FIT_s3("STEM_1_L") + 1

\* C17 as claimed: normalTrf is one rotation per scheme, the same for every stem
\* label and without a translation, FIT included.
C17_NormalTrfIsFixedRotation ==
  (last.op = "normalTrf" /\ last.returned /\ isStemOf(prod, last.stemLabel)) =>
    /\ \A i \in 1..Len(last.val) : ~isTrans(last.val[i])
    /\ \A l \in StemsOf(prod) : normalTrf(prod, l).val = last.val

\* C17: in Corail, Amistem, Ecofit, Actis and Optimys normalTrf is one rotation
\* per scheme, the same for every label and without a translation.  In FIT it
\* depends on the stem label: the rotation rotY(4) rotX(5 for a right stem, -5 for
\* a left stem) rotY(-45) rotX(90), applied after the translation by (l, 0, 0),
\* where l is 34.4, 36.5, 38.0, 39.5, 41.5, 43.4, 45.6 mm for the sizes 1 to 7.
C17_NormalTrfFixedRotationButFIT ==
  (last.op = "normalTrf" /\ last.returned /\ isStemOf(prod, last.stemLabel)) =>
    IF prod # "FIT"
      THEN /\ \A i \in 1..Len(last.val) : ~isTrans(last.val[i])
           /\ \A l \in ComposerLabels(prod) : normalTrf(prod, l).val = last.val
      ELSE /\ rotationsOf(last.val)
                = rotMatY3(4)
                    \o rotMatX3(IF last.stemLabel <= FIT_s3("STEM_7_R") THEN 5 ELSE 0 - 5)
                    \o rotMatY3(0 - 45) \o rotMatX3(90)
           /\ Len(last.val) = 5
           /\ last.val[5] = transMat3(SboPoint3(
                <<FIT_SizeLength[FIT_SizeOf(last.stemLabel)], 0, 0>>))[1]

C17_Witness ==
  /\ prod = "FIT" /\ last.op = "normalTrf" /\ last.returned
  /\ last.stemLabel = FIT_s3("STEM_3_L")
  /\ last.val[2] = rotMatX3(0 - 5)[1]
  /\ last.val[5].v.o = <<380000, 0, 0>>

\* the three landmark lookups
Lookups == {"getRES_01", "getRES_02", "getTPR_01"}

\* C18: getRES_01, getRES_02 and getTPR_01 of Corail, Amistem, Ecofit and Actis
\* check isStem(label) first: a call with a label that is not a stem fails the
\* check, and where the check is compiled in it stops there and yields no landmark.
C18_LookupAssertsIsStem ==
  (last.op \in Lookups /\ ~isStemOf(prod, last.stemLabel)) =>
    /\ last.tripped
    /\ last.build = "debug" => (pc = "aborted" /\ ~last.returned)

C18_Witness ==
  /\ prod = "Actis" /\ last.op = "getTPR_01" /\ last.stemLabel = Actis_s3("HEAD_P4")
  /\ last.tripped /\ last.build = "debug" /\ pc = "aborted" /\ ~last.returned

\* the operations of the transform composer
ComposerOps ==
  {"headToStemMatrix", "cutPlane", "cutPlaneBbox", "stemToStemMatrix", "normalTrf", "offsetFF"}

\* C19 as claimed: every operation of the transform composer called with a stem
\* label that is not a stem, or with a head label that is not a head, fails a
\* check instead of returning a value computed from a default.
C19_ComposerAssertsItsLabels ==
  (/\ last.op \in ComposerOps
   /\ \/ ~isStemOf(prod, last.stemLabel)
      \/ last.op = "headToStemMatrix" /\ ~isHeadOf(prod, last.headLabel)) =>
    last.tripped

\* C20: for a stem label of Corail or Actis every lookup, and for a stem label of
\* Amistem getRES_01 and getTPR_01, returns the point of an authored table row;
\* the default after the tables is not reached.
C20_StemHasAuthoredRow ==
  (/\ last.op \in Lookups /\ last.returned
   /\ isStemOf(prod, last.stemLabel)
   /\ \/ prod \in {"Corail", "Actis"}
      \/ prod = "Amistem" /\ last.op \in {"getRES_01", "getTPR_01"}) =>
    last.val.authored

C20_Witness ==
  /\ prod = "Corail" /\ last.op = "getRES_01" /\ last.returned
  /\ Corail_isCCD_KA_STD135(last.stemLabel) /\ Corail_getOffset(last.stemLabel) = 10
  /\ last.val.authored /\ last.val.pt # <<0, 0, 0>>

(***************************************************************************)
(* Properties of the sub-range tables, of sequences of switches and steps, *)
(* and of the duplicated tables                                            *)
(***************************************************************************)
\* the labels the isCCD_* predicate of marker R accepts
LabelsOf(p, R) == {x \in AllLabels(p) : isCCD(p, R, x)}

\* C21: for the sub-range of every stem label the recorded bounds count the
\* labels classified into it (r1 - r0 + 1 labels), and the offset the scheme
\* computes for the label lies in 0..(r1 - r0) and leads from the first label of
\* the sub-range to the label itself.
C21_BoundsCountLabelsAndOffsetsAreContiguous ==
  (last.op = "similarLabel" /\ isStem(prod, last.arg.stemLabel)) =>
    LET l == last.arg.stemLabel
        R == getCCDRange(prod, l)
    IN /\ Cardinality(LabelsOf(prod, R)) = maxOffset(prod, R) + 1
       /\ getSize(prod, l) \in 0..maxOffset(prod, R)
       /\ next(label0(prod, R), getSize(prod, l)) = l
       /\ \A k \in 0..maxOffset(prod, R) : isCCD(prod, R, next(label0(prod, R), k))

\* the last stem of a sub-range that is not the first of the enumeration
C21_Witness ==
  /\ prod = "Ecofit"
  /\ last.op = "similarLabel"
  /\ last.arg.stemLabel = Ecofit_s3("STEM_LAT_138_9")
  /\ getSize(prod, last.arg.stemLabel) = 9
  /\ maxOffset(prod, getCCDRange(prod, last.arg.stemLabel)) = 9

\* the record is accepted: fillAndValidAssembly flags it valid
Accepted(p, c) == fillAndValidAssembly(p, c).validAssembly

\* C22: a step of nextPrev or a switch by similarLabel taken from a stem label
\* ends at a stem label of the product (after a switch: a label of the requested
\* sub-range or the source label), and a record that fillAndValidAssembly accepts
\* is still accepted after the step; so it is after any sequence of them.
C22_StepsAndSwitchesKeepStems ==
  [][(/\ last'.op \in {"nextPrev", "similarLabel"}
      /\ isStem(prod, femIC.stemLabel)
      /\ pc' = "ready") =>
       /\ isStem(prod, femIC'.stemLabel)
       /\ last'.op = "similarLabel" =>
            (femIC'.stemLabel = femIC.stemLabel \/ isCCD(prod, last'.aRange, femIC'.stemLabel))
       /\ Accepted(prod, femIC) => Accepted(prod, femIC')]_vars

\* an accepted record switched from the last lateral stem into the family of the
\* standard stems, after which it is still accepted
C22_Witness ==
  /\ prod = "Actis"
  /\ last.op = "similarLabel"
  /\ last.arg.stemLabel = Actis_s3("STEM_HO_12")
  /\ last.aRange = Actis_s3("RANGE_CCD_STD")
  /\ Accepted(prod, last.arg)
  /\ femIC.stemLabel = Actis_s3("STEM_STD_12")
  /\ Accepted(prod, femIC)

\* similarLabel of the current stem and the marker R
Switch(l, R) == similarLabel(prod, l, R)

\* C23: switching to a sub-range R2, back to the sub-range R1 of the label and
\* to R2 again ends where the first switch ended.
C23_TogglingIsStable ==
  (last.op = "similarLabel" /\ isStem(prod, last.arg.stemLabel)) =>
    LET l == last.arg.stemLabel
        R1 == getCCDRange(prod, l)
        R2 == last.aRange
    IN Switch(Switch(femIC.stemLabel, R1), R2) = femIC.stemLabel

\* the smallest KS stem, which the first switch moves to the smallest KHO stem
\* and the switch back to the second KS stem
C23_Witness ==
  /\ prod = "Corail"
  /\ last.op = "similarLabel"
  /\ last.arg.stemLabel = Corail_s3("STEM_KS_STD135_0")
  /\ last.aRange = Corail_s3("RANGE_CCD_KHO_S_135")
  /\ femIC.stemLabel = Corail_s3("STEM_KHO_S_135_0")
  /\ Switch(femIC.stemLabel, Corail_s3("RANGE_CCD_KS_STD135")) = Corail_s3("STEM_KS_STD135_1")
  /\ Switch(Corail_s3("STEM_KS_STD135_1"), last.aRange) = femIC.stemLabel

\* the fields of a record that make the request
Request(c) == <<c.requestedSide, c.stemLabel, c.headLabel, c.neckLabel>>

\* C24: fillAndValidAssembly applied to its own result returns that result, and
\* the requested side and the stem, head and neck labels of the result are those
\* of the argument.
C24_FillIsIdempotentAndKeepsRequest ==
  last.op = "fillAndValidAssembly" =>
    /\ fillAndValidAssembly(prod, femIC) = femIC
    /\ Request(femIC) = Request(last.arg)

\* a fresh record without a cut plane label, found valid: the names and the cut
\* plane label are written by the first call, and a second call changes nothing
C24_Witness ==
  /\ prod = "Ecofit"
  /\ last.op = "fillAndValidAssembly"
  /\ last.arg.requestedSide = "Left"
  /\ ~isSet(last.arg.cutPlaneLabel)
  /\ femIC.validAssembly
  /\ femIC # last.arg
  /\ fillAndValidAssembly(prod, femIC) = femIC

\* the stems the resolver gives for the stem a, one for every family
SimilarOf(a) == {similarLabel(prod, a, R) : R \in RangeMarkers(prod)}

\* C25: in Amistem the matrix from a stem a to its similar stem b of any family
\* and the matrix from b back to a are translations that add up to zero: their
\* product is the identity, for the direct pairs and for the chained ones.
C25_AmistemThereAndBackIsNeutral ==
  (/\ prod = "Amistem"
   /\ last.op = "stemToStemMatrix"
   /\ isStem(prod, last.stemLabel)
   /\ last.targetLabel \in SimilarOf(last.stemLabel)) =>
    LET back == stemToStemMatrix(prod, WithStem(last.targetLabel), WithStem(last.stemLabel))
    IN /\ last.returned
       /\ back.pre
       /\ matMul(last.val, back.val) = idMat3

\* LAT 3 to its similar LAT SN stem goes through STD and STD SN in three shifts
\* that do not cancel
C25_Witness ==
  /\ prod = "Amistem"
  /\ last.op = "stemToStemMatrix"
  /\ last.stemLabel = Amistem_s3("STEM_LAT_3")
  /\ Amistem_isCCD_LAT_SN(last.targetLabel)
  /\ last.targetLabel \in SimilarOf(last.stemLabel)
  /\ Len(Amistem_stemToStemCalls(last.stemLabel, last.targetLabel)) = 3
  /\ last.val # idMat3

KindsOf(p, l) ==
  {k \in {"stem", "cutPlane", "head", "range"} :
     \/ k = "stem" /\ isStem(p, l)
     \/ k = "cutPlane" /\ l = CUTPLANE(p)
     \/ k = "head" /\ isHead(p, l)
     \/ k = "range" /\ l \in RangeMarkers(p)}

\* C27: in each product a label that inRange accepts is of exactly one kind: a
\* stem, the cut plane, a head or a family marker; so no label is a stem and a
\* head, and no family marker is a stem or a head.
C27_LabelsInRangeAreOfOneKind ==
  \A l \in {femIC.stemLabel, femIC.headLabel, last.arg.stemLabel} :
    /\ inRange(prod, l) => Cardinality(KindsOf(prod, l)) = 1
    /\ ~(isStem(prod, l) /\ isHead(prod, l))
    /\ l \in RangeMarkers(prod) => ~isStem(prod, l) /\ ~isHead(prod, l)

\* a record whose stem label is a family marker: the marker is in range, is of
\* the kind "range" only, and the validation does not take it for a stem
C27_Witness ==
  /\ prod = "Corail"
  /\ last.op = "fillAndValidAssembly"
  /\ last.arg.stemLabel = Corail_s3("RANGE_CCD_KLA_125")
  /\ inRange(prod, last.arg.stemLabel)
  /\ KindsOf(prod, last.arg.stemLabel) = {"range"}
  /\ ~femIC.validAssembly

\* the schemes whose stem items carry a size in their name
SizedSchemes == {"Corail", "Amistem", "Ecofit"}

\* the stem items of the family R whose size text is that of the item of the label l
SameSizeIn(p, l, R) ==
  LET rows == parts(p)
      mine == {rows[i][2] : i \in {k \in 1..Len(rows) : rows[k][1] = l}}
  IN {rows[j][1] : j \in {k \in 1..Len(rows) : rows[k][2] \in mine /\ isCCD(p, R, rows[k][1])}}

\* C28: in Corail, Ecofit and Amistem, when the target family holds an item with
\* the size text of the source stem, similarLabel returns that item.
C28_SimilarLabelKeepsCatalogSize ==
  (prod \in SizedSchemes /\ last.op = "similarLabel") =>
    LET same == SameSizeIn(prod, last.arg.stemLabel, last.aRange)
    IN same # {} => same = {femIC.stemLabel}

\* Ecofit 138 STD 17,5 is the ninth item of its family and the tenth of 133 STD
C28_Witness ==
  /\ prod = "Ecofit"
  /\ last.op = "similarLabel"
  /\ last.arg.stemLabel = Ecofit_s3("STEM_STD_138_8")
  /\ last.aRange = Ecofit_s3("RANGE_CCD_STD_133")
  /\ femIC.stemLabel = Ecofit_s3("STEM_STD_133_9")
  /\ SameSizeIn(prod, last.arg.stemLabel, last.aRange) = {femIC.stemLabel}

RECURSIVE Steps(_, _, _)

\* the record after n calls of nextPrev in one direction
Steps(c, aNext, n) == IF n = 0 THEN c ELSE nextPrev(prod, Steps(c, aNext, n - 1), aNext)

\* C29: from a stem at offset k of a family with last offset m, j steps forward
\* lead to offset k + j for every j up to m - k, so the last label of the family
\* is reached after exactly m - k steps, and a further step changes nothing; k
\* steps backward reach the first label in the same way.
C29_SteppingStopsAtTheFamilyEnd ==
  (last.op = "nextPrev" /\ pc = "ready" /\ isStem(prod, last.arg.stemLabel)) =>
    LET c == last.arg
        R == getCCDRange(prod, c.stemLabel)
        k == getSize(prod, c.stemLabel)
        m == maxOffset(prod, R)
        n == IF last.aNext THEN m - k ELSE k
        end == next(label0(prod, R), IF last.aNext THEN m ELSE 0)
    IN /\ femIC = Steps(c, last.aNext, 1)
       /\ \A j \in 0..n :
            Steps(c, last.aNext, j).stemLabel = next(c.stemLabel, IF last.aNext THEN j ELSE 0 - j)
       /\ Steps(c, last.aNext, n).stemLabel = end
       /\ \A j \in 0..(n - 1) : Steps(c, last.aNext, j).stemLabel # end
       /\ nextPrev(prod, Steps(c, last.aNext, n), last.aNext) = Steps(c, last.aNext, n)

\* Corail KS 15 is three steps before KS 20, the last of its family, whose
\* neighbour is a stem of another family
C29_Witness ==
  /\ prod = "Corail"
  /\ last.op = "nextPrev"
  /\ last.aNext
  /\ last.arg.stemLabel = Corail_s3("STEM_KS_STD135_7")
  /\ femIC.stemLabel = Corail_s3("STEM_KS_STD135_8")
  /\ Steps(last.arg, TRUE, 3).stemLabel = Corail_s3("STEM_KS_STD135_10")
  /\ Steps(last.arg, TRUE, 4) = Steps(last.arg, TRUE, 3)
  /\ isStem(prod, Corail_s3("STEM_KS_STD135_10") + 1)

\* C30: in FIT the x of the point of cutPlane, the x of the centre of the box of
\* cutPlaneBbox and the negated x of the translation of normalTrf are one value
\* for every stem: the distance 34.4, 36.5, 38.0, 39.5, 41.5, 43.4, 45.6 mm of the
\* sizes 1 to 7, on the negative x axis; the left and the right stem of a size
\* have the same value.
C30_FITDistanceTablesAgree ==
  (prod = "FIT" /\ last.op = "cutPlane" /\ last.returned /\ isStemOf(prod, last.stemLabel)) =>
    LET x == last.val.o.o[1]
        box == cutPlaneBbox(prod, last.stemLabel).val
        trf == normalTrf(prod, last.stemLabel).val
    IN /\ Centre(box).o[1] = x
       /\ isTrans(trf[Len(trf)]) /\ 0 - trf[Len(trf)].v.o[1] = x
       /\ 0 - FIT_SizeLength[FIT_SizeOf(last.stemLabel)] = x
       /\ \A l \in StemsOf(prod) :
            FIT_SizeOf(l) = FIT_SizeOf(last.stemLabel) => cutPlane(prod, l).val.o.o[1] = x

\* the left stem of size 5: 41.5 mm in the three tables, as for the right stem
C30_Witness ==
  /\ prod = "FIT"
  /\ last.op = "cutPlane"
  /\ last.returned
  /\ last.stemLabel = FIT_s3("STEM_5_L")
  /\ last.val.o.o[1] = 0 - 415000
  /\ Centre(cutPlaneBbox(prod, last.stemLabel).val).o[1] = 0 - 415000
  /\ normalTrf(prod, last.stemLabel).val[5].v.o[1] = 415000
  /\ cutPlane(prod, FIT_s3("STEM_5_R")).val.o.o[1] = 0 - 415000

====
